---- MODULE Spec2Model ----
(***************************************************************************)
(* Clause analysis pipeline of the contract-review application:           *)
(* text segmentation, rule matching, heuristic clause analysis, the       *)
(* per-document analysis loop, and the upload / reset request handlers    *)
(* working on the clause store.                                           *)
(*                                                                         *)
(* Strings are sequences of one-character strings, so that substring      *)
(* tests, case folding, trimming and the regular-expression splits are    *)
(* computed character by character as the JavaScript code computes them.  *)
(***************************************************************************)
EXTENDS Integers, Sequences, FiniteSets, TLC

----------------------------------------------------------------------------
(* Character-level string primitives (JavaScript String methods).          *)

\* String.prototype.toLowerCase on one character (ASCII letters).
UpperToLower ==
    "A" :> "a" @@ "B" :> "b" @@ "C" :> "c" @@ "D" :> "d" @@ "E" :> "e" @@
    "F" :> "f" @@ "G" :> "g" @@ "H" :> "h" @@ "I" :> "i" @@ "J" :> "j" @@
    "K" :> "k" @@ "L" :> "l" @@ "M" :> "m" @@ "N" :> "n" @@ "O" :> "o" @@
    "P" :> "p" @@ "Q" :> "q" @@ "R" :> "r" @@ "S" :> "s" @@ "T" :> "t" @@
    "U" :> "u" @@ "V" :> "v" @@ "W" :> "w" @@ "X" :> "x" @@ "Y" :> "y" @@
    "Z" :> "z"

\* String.prototype.toLowerCase
toLowerCase(s) ==
    [k \in 1..Len(s) |-> IF s[k] \in DOMAIN UpperToLower THEN UpperToLower[s[k]] ELSE s[k]]

\* String.prototype.includes: needle occurs in hay at some offset
\* (the empty needle occurs in every string).
includes(hay, needle) ==
    \E off \in 0..(Len(hay) - Len(needle)) :
        \A k \in 1..Len(needle) : hay[off + k] = needle[k]

\* The characters the regular-expression class \s and String.trim treat as
\* white space (those that occur in the modelled texts).
WhiteSpace == {" ", "\n", "\r", "\t"}

\* String.prototype.trim
trimStart(s) ==
    LET solid == {k \in 1..Len(s) : s[k] \notin WhiteSpace}
    IN  IF solid = {} THEN <<>>
        ELSE SubSeq(s, CHOOSE k \in solid : \A j \in solid : k <= j, Len(s))

trimEnd(s) ==
    LET solid == {k \in 1..Len(s) : s[k] \notin WhiteSpace}
    IN  IF solid = {} THEN <<>>
        ELSE SubSeq(s, 1, CHOOSE k \in solid : \A j \in solid : k >= j)

trim(s) == trimEnd(trimStart(s))

----------------------------------------------------------------------------
(* String literals of the program.                                         *)

\* storage.ts: initial compliance rules
KwNonDisclosure ==
    <<"N","o","n","-","d","i","s","c","l","o","s","u","r","e"," ","a","g","r","e","e","m","e",
      "n","t">>

KwLiabilityClause ==
    <<"L","i","a","b","i","l","i","t","y"," ","c","l","a","u","s","e">>

KwIntellectualProperty ==
    <<"I","n","t","e","l","l","e","c","t","u","a","l"," ","p","r","o","p","e","r","t","y"," ",
      "r","i","g","h","t","s">>

\* contractAnalyzer.ts: first entry of sampleClauses
SampleVendorClause ==
    <<"T","h","e"," ","V","e","n","d","o","r"," ","s","h","a","l","l"," ","n","o","t"," ","b",
      "e"," ","l","i","a","b","l","e"," ","f","o","r"," ","a","n","y"," ","d","a","m","a","g",
      "e","s"," ","w","h","a","t","s","o","e","v","e","r"," ","a","r","i","s","i","n","g"," ",
      "o","u","t"," ","o","f"," ","o","r"," ","i","n"," ","c","o","n","n","e","c","t","i","o",
      "n"," ","w","i","t","h"," ","t","h","e"," ","u","s","e"," ","o","r"," ","p","e","r","f",
      "o","r","m","a","n","c","e"," ","o","f"," ","t","h","e"," ","s","o","f","t","w","a","r",
      "e",","," ","i","n","c","l","u","d","i","n","g"," ","b","u","t"," ","n","o","t"," ","l",
      "i","m","i","t","e","d"," ","t","o"," ","d","i","r","e","c","t",","," ","i","n","d","i",
      "r","e","c","t",","," ","i","n","c","i","d","e","n","t","a","l",","," ","c","o","n","s",
      "e","q","u","e","n","t","i","a","l",","," ","a","n","d"," ","s","p","e","c","i","a","l",
      " ","d","a","m","a","g","e","s",","," ","e","v","e","n"," ","i","f"," ","a","d","v","i",
      "s","e","d"," ","o","f"," ","t","h","e"," ","p","o","s","s","i","b","i","l","i","t","y",
      " ","o","f"," ","s","u","c","h"," ","d","a","m","a","g","e","s",".">>

SubConfiden ==
    <<"c","o","n","f","i","d","e","n">>

SubTerminat ==
    <<"t","e","r","m","i","n","a","t">>

SubPayment ==
    <<"p","a","y","m","e","n","t">>

SubFee ==
    <<"f","e","e">>

SubLiab ==
    <<"l","i","a","b">>

SubIntellectual ==
    <<"i","n","t","e","l","l","e","c","t","u","a","l">>

SubProperty ==
    <<"p","r","o","p","e","r","t","y">>

SubIndemnif ==
    <<"i","n","d","e","m","n","i","f">>

\* routes.ts: upload handler
SubConfidential ==
    <<"c","o","n","f","i","d","e","n","t","i","a","l">>

DefaultTerminationClause ==
    <<"E","i","t","h","e","r"," ","p","a","r","t","y"," ","m","a","y"," ","t","e","r","m","i",
      "n","a","t","e"," ","w","i","t","h"," ","3","0"," ","d","a","y","s"," ","w","r","i","t",
      "t","e","n"," ","n","o","t","i","c","e">>

DefaultConfidentialityClause ==
    <<"S","t","a","n","d","a","r","d"," ","c","o","n","f","i","d","e","n","t","i","a","l","i",
      "t","y"," ","t","e","r","m","s"," ","a","p","p","l","y">>

----------------------------------------------------------------------------
(* Inputs: clause texts and compliance rules the analyses are run on.      *)

\* keyword of a user-defined rule
KwLiable ==
    <<"l","i","a","b","l","e">>

\* clause texts
TextLiabilityCap ==
    <<"T","h","i","s"," ","L","i","a","b","i","l","i","t","y"," ","C","l","a","u","s","e"," ",
      "c","a","p","s"," ","a","l","l"," ","d","a","m","a","g","e","s",".">>

TextNda ==
    <<"A"," ","N","o","n","-","d","i","s","c","l","o","s","u","r","e"," ","a","g","r","e","e",
      "m","e","n","t"," ","b","i","n","d","s"," ","b","o","t","h"," ","p","a","r","t","i","e",
      "s",".">>

TextIpSurvive ==
    <<"I","n","t","e","l","l","e","c","t","u","a","l"," ","p","r","o","p","e","r","t","y"," ",
      "r","i","g","h","t","s"," ","a","n","d"," ","t","h","e"," ","l","i","a","b","i","l","i",
      "t","y"," ","c","l","a","u","s","e"," ","s","u","r","v","i","v","e"," ","t","e","r","m",
      "i","n","a","t","i","o","n",".">>

TextIpOwner ==
    <<"I","n","t","e","l","l","e","c","t","u","a","l"," ","p","r","o","p","e","r","t","y"," ",
      "r","i","g","h","t","s"," ","i","n"," ","a","l","l"," ","d","e","l","i","v","e","r","a",
      "b","l","e","s"," ","s","t","a","y"," ","w","i","t","h"," ","t","h","e"," ","a","u","t",
      "h","o","r",".">>

TextPlain ==
    <<"P","l","a","i","n"," ","w","o","r","d","i","n","g",".">>

ClausePool == {SampleVendorClause, TextLiabilityCap, TextNda, TextIpSurvive, TextPlain}

\* MemStorage constructor: the three initial compliance rules (ids 1..3).
InitialRules ==
    << [id |-> 1, keyword |-> KwNonDisclosure,        allowed |-> TRUE],
       [id |-> 2, keyword |-> KwLiabilityClause,      allowed |-> FALSE],
       [id |-> 3, keyword |-> KwIntellectualProperty, allowed |-> TRUE] >>

\* Rules a user adds: a disallowed keyword, the rule "Add Rule" creates
\* (empty keyword, allowed), and such a rule switched to disallowed.
UserRules ==
    { [id |-> 4, keyword |-> KwLiable, allowed |-> FALSE],
      [id |-> 5, keyword |-> <<>>,     allowed |-> TRUE],
      [id |-> 6, keyword |-> <<>>,     allowed |-> FALSE] }

RulePool == {InitialRules[k] : k \in 1..Len(InitialRules)} \cup UserRules

\* Largest rule list analysed.
MaxRules == 3

\* Rule lists: sequences of distinct rules of the pool, at most MaxRules long.
RuleLists ==
    { rs \in UNION { [1..n -> RulePool] : n \in 0..MaxRules } :
        \A a, b \in DOMAIN rs : a # b => rs[a] # rs[b] }

----------------------------------------------------------------------------
(* Heuristic clause analysis (contractAnalyzer.ts, basicClauseAnalysis).   *)

\* Variant of ruleMatches that leaves the loop at the first matching rule.
RECURSIVE ruleMatchesFirstOnly(_, _)
ruleMatchesFirstOnly(clauseText, ruleList) ==
    IF ruleList = <<>> THEN <<>>
    ELSE LET rule == Head(ruleList)
         IN  IF includes(toLowerCase(clauseText), toLowerCase(rule.keyword))
             THEN <<[rule |-> rule, isViolation |-> ~rule.allowed]>>
             ELSE ruleMatchesFirstOnly(clauseText, Tail(ruleList))

\* Variant of ruleMatches that compares without folding case.
RECURSIVE ruleMatchesCaseSensitive(_, _)
ruleMatchesCaseSensitive(clauseText, ruleList) ==
    IF ruleList = <<>> THEN <<>>
    ELSE LET rule == Head(ruleList)
             rest == ruleMatchesCaseSensitive(clauseText, Tail(ruleList))
         IN  IF includes(clauseText, rule.keyword)
             THEN <<[rule |-> rule, isViolation |-> ~rule.allowed]>> \o rest
             ELSE rest

\* Variant of ruleMatches that passes over the rules with an empty keyword.
RECURSIVE ruleMatchesNonEmptyKeyword(_, _)
ruleMatchesNonEmptyKeyword(clauseText, ruleList) ==
    IF ruleList = <<>> THEN <<>>
    ELSE LET rule == Head(ruleList)
             rest == ruleMatchesNonEmptyKeyword(clauseText, Tail(ruleList))
         IN  IF rule.keyword # <<>>
                /\ includes(toLowerCase(clauseText), toLowerCase(rule.keyword))
             THEN <<[rule |-> rule, isViolation |-> ~rule.allowed]>> \o rest
             ELSE rest

\* rules.forEach: one entry per rule whose keyword the clause contains.
RECURSIVE ruleMatches(_, _)
ruleMatches(clauseText, ruleList) ==
    IF ruleList = <<>> THEN <<>>
    ELSE LET rule == Head(ruleList)
             rest == ruleMatches(clauseText, Tail(ruleList))
         IN  IF includes(toLowerCase(clauseText), toLowerCase(rule.keyword))
             THEN <<[rule |-> rule, isViolation |-> ~rule.allowed]>> \o rest
             ELSE rest

\* matches.filter(m => m.isViolation)
violationsOf(matchList) == SelectSeq(matchList, LAMBDA m : m.isViolation)

\* Variant of complianceStatusOf that counts every match as a violation.
complianceStatusAnyMatch(matchList, coin) ==
    IF Len(matchList) > 0 THEN "Non-Compliant" ELSE "Compliant"

\* Variant of complianceStatusOf whose initial status is "Review Needed".
complianceStatusDefaultReview(matchList, coin) ==
    IF Len(violationsOf(matchList)) > 0 THEN "Non-Compliant"
    ELSE IF Len(matchList) > 0 THEN (IF coin THEN "Compliant" ELSE "Review Needed")
    ELSE "Review Needed"

\* Compliance status; coin is the outcome of Math.random() > 0.5.
complianceStatusOf(matchList, coin) ==
    IF Len(violationsOf(matchList)) > 0 THEN "Non-Compliant"
    ELSE IF Len(matchList) > 0 THEN (IF coin THEN "Compliant" ELSE "Review Needed")
    ELSE "Compliant"

Max(a, b) == IF a >= b THEN a ELSE b
Min(a, b) == IF a <= b THEN a ELSE b

\* Variant of riskScoreOf that forgets the lower clamp of the medium band.
riskScoreNoFloor(complianceStatus, base) ==
    IF complianceStatus = "Non-Compliant" THEN Max(7, base)
    ELSE IF complianceStatus = "Review Needed" THEN Min(6, base)
    ELSE Min(3, base)

\* Risk score; base is Math.floor(Math.random() * 10).
riskScoreOf(complianceStatus, base) ==
    IF complianceStatus = "Non-Compliant" THEN Max(7, base)
    ELSE IF complianceStatus = "Review Needed" THEN Max(4, Min(6, base))
    ELSE Min(3, base)

categories ==
    <<"Liability", "IP Rights", "Confidentiality", "Payment Terms", "Termination",
      "Indemnification">>

\* Variant of keywordCategory that tests "liab" first.
keywordCategoryLiabilityFirst(clauseText) ==
    LET lower == toLowerCase(clauseText)
    IN  IF includes(lower, SubLiab) THEN "Liability"
        ELSE IF includes(lower, SubConfiden) THEN "Confidentiality"
        ELSE IF includes(lower, SubTerminat) THEN "Termination"
        ELSE IF includes(lower, SubPayment) \/ includes(lower, SubFee) THEN "Payment Terms"
        ELSE IF includes(lower, SubIntellectual) \/ includes(lower, SubProperty)
             THEN "IP Rights"
        ELSE IF includes(lower, SubIndemnif) THEN "Indemnification"
        ELSE ""

\* The category the keyword tests assign, "" when no test succeeds.
keywordCategory(clauseText) ==
    LET lower == toLowerCase(clauseText)
    IN  IF includes(lower, SubConfiden) THEN "Confidentiality"
        ELSE IF includes(lower, SubTerminat) THEN "Termination"
        ELSE IF includes(lower, SubPayment) \/ includes(lower, SubFee) THEN "Payment Terms"
        ELSE IF includes(lower, SubLiab) THEN "Liability"
        ELSE IF includes(lower, SubIntellectual) \/ includes(lower, SubProperty)
             THEN "IP Rights"
        ELSE IF includes(lower, SubIndemnif) THEN "Indemnification"
        ELSE ""

\* Category: the random pick categories[catIdx], catIdx being
\* Math.floor(Math.random() * categories.length), overridden by the keyword tests.
categoryOf(keywordCat, catIdx) ==
    IF keywordCat # "" THEN keywordCat ELSE categories[catIdx + 1]

\* Titles of the templated recommendations.
recommendationsOf(complianceStatus) ==
    IF complianceStatus = "Non-Compliant" THEN <<"Remove non-compliant language">>
    ELSE IF complianceStatus = "Review Needed" THEN <<"Review clause carefully">>
    ELSE <<>>

\* One compliance issue per violation, naming the violated rule's keyword.
complianceIssuesOf(matchList) ==
    LET v == violationsOf(matchList)
    IN  [k \in 1..Len(v) |-> [rule |-> v[k].rule.keyword]]

\* The three random draws of one heuristic analysis.
CoinDraws == BOOLEAN
BaseDraws == 0..9
CategoryDraws == 0..(Len(categories) - 1)

\* The record basicClauseAnalysis returns, from its matches array, the
\* outcome of its keyword tests and its three random draws.
analysisOf(matchList, keywordCat, coin, base, catIdx) ==
    LET complianceStatus == complianceStatusOf(matchList, coin)
    IN  [ compliance_status |-> complianceStatus,
          risk_score        |-> riskScoreOf(complianceStatus, base),
          category          |-> categoryOf(keywordCat, catIdx),
          recommendations   |-> recommendationsOf(complianceStatus),
          compliance_issues |-> complianceIssuesOf(matchList) ]

basicClauseAnalysis(clauseText, ruleList, section, coin, base, catIdx) ==
    analysisOf(ruleMatches(clauseText, ruleList), keywordCategory(clauseText),
               coin, base, catIdx)

\* Every result the heuristic analysis can return for one clause.
basicClauseAnalysisResults(clauseText, ruleList, section) ==
    LET matchList == ruleMatches(clauseText, ruleList)
        keywordCat == keywordCategory(clauseText)
    IN  { analysisOf(matchList, keywordCat, coin, base, catIdx) :
            coin \in CoinDraws, base \in BaseDraws, catIdx \in CategoryDraws }

sampleSections == <<"1.1", "2.3", "3.5", "4.2", "5.7", "6.1", "7.4", "8.3", "9.1">>

----------------------------------------------------------------------------
(* Clause segmentation (contractAnalyzer.ts: splitTextIntoClauses,          *)
(* extractClauses; openai.ts: extractClausesWithAI).                       *)

\* Index of the last character of the longest run of white space that starts
\* at index k (k - 1 when s[k] is no white space).
whiteSpaceRunEnd(s, k) ==
    CHOOSE e \in (k - 1)..Len(s) :
        /\ \A j \in k..e : s[j] \in WhiteSpace
        /\ e = Len(s) \/ s[e + 1] \notin WhiteSpace

\* Number of characters one repetition of (?:\r?\n) consumes at index k,
\* 0 when it does not match there.
lineBreakAt(s, k) ==
    IF k <= Len(s) /\ s[k] = "\n" THEN 1
    ELSE IF k + 1 <= Len(s) /\ s[k] = "\r" /\ s[k + 1] = "\n" THEN 2
    ELSE 0

\* Index after the longest sequence of line breaks starting at index k, and
\* the number of line breaks in it.
RECURSIVE lineBreaksFrom(_, _, _)
lineBreaksFrom(s, k, count) ==
    IF lineBreakAt(s, k) = 0 THEN [next |-> k, count |-> count]
    ELSE lineBreaksFrom(s, k + lineBreakAt(s, k), count + 1)

\* The three separators the code splits on.
\*   "blankLine"  /\n\s*\n/         (splitTextIntoClauses)
\*   "sentence"   /\.\s+/           (splitTextIntoClauses)
\*   "lineBreaks" /(?:\r?\n){2,}/   (extractClausesWithAI, catch block)
\* matchEnd is the index of the last character of the (greedy) match that
\* starts at index q, and 0 when the separator does not match at q.
matchEnd(separator, s, q) ==
    IF separator = "blankLine" THEN
        IF s[q] # "\n" THEN 0
        ELSE LET run == whiteSpaceRunEnd(s, q + 1)
                 newlines == {k \in (q + 1)..run : s[k] = "\n"}
             IN  IF newlines = {} THEN 0
                 ELSE CHOOSE k \in newlines : \A j \in newlines : j <= k
    ELSE IF separator = "sentence" THEN
        IF s[q] # "." THEN 0
        ELSE LET run == whiteSpaceRunEnd(s, q + 1)
             IN  IF run = q THEN 0 ELSE run
    ELSE
        LET reps == lineBreaksFrom(s, q, 0)
        IN  IF reps.count >= 2 THEN reps.next - 1 ELSE 0

\* Index of the first match of the separator at or after index q, 0 when
\* there is none.
firstMatch(separator, s, q) ==
    LET starts == {k \in q..Len(s) : matchEnd(separator, s, k) # 0}
    IN  IF starts = {} THEN 0 ELSE CHOOSE k \in starts : \A j \in starts : k <= j

\* String.prototype.split with a separator that never matches the empty
\* string: p is the start of the current piece.
RECURSIVE splitFrom(_, _, _)
splitFrom(separator, s, p) ==
    LET q == firstMatch(separator, s, p)
    IN  IF q = 0 THEN <<SubSeq(s, p, Len(s))>>
        ELSE <<SubSeq(s, p, q - 1)>>
                \o splitFrom(separator, s, matchEnd(separator, s, q) + 1)

split(s, separator) == splitFrom(separator, s, 1)

\* Paragraphs and sentences shorter than this are dropped.
MinClauseLength == 50

\* Variant of splitTextIntoClauses without the sentence fallback.
splitTextNoSentenceFallback(docText) ==
    SelectSeq(split(docText, "blankLine"), LAMBDA para : Len(trim(para)) > MinClauseLength)

splitTextIntoClauses(docText) ==
    LET paragraphs == split(docText, "blankLine")
        kept == SelectSeq(paragraphs, LAMBDA para : Len(trim(para)) > MinClauseLength)
    IN  IF Len(kept) = 0
        THEN SelectSeq(split(docText, "sentence"), LAMBDA sent : Len(sent) > MinClauseLength)
        ELSE kept

\* What the model's chat completion does for the segmentation request:
\*   "error"     the request throws
\*   "empty"     the message has no content
\*   "malformed" the content is not JSON
\*   "noClauses" JSON without a clauses member, or with an empty array
\*   "clauses"   JSON with a non-empty clauses array
AiSegmentOutcomes == {"error", "empty", "malformed", "noClauses", "clauses"}

extractClausesWithAI(docText, outcome, aiList) ==
    IF outcome \in {"error", "malformed"}
    THEN SelectSeq(split(docText, "lineBreaks"), LAMBDA part : Len(trim(part)) > MinClauseLength)
    ELSE IF outcome = "clauses" THEN aiList
    ELSE <<>>

\* extractClauses after the text has been extracted; keyConfigured is
\* process.env.OPENAI_API_KEY being set.
extractClauses(docText, keyConfigured, outcome, aiList) ==
    LET aiClauses == IF keyConfigured THEN extractClausesWithAI(docText, outcome, aiList)
                     ELSE <<>>
    IN  IF keyConfigured /\ Len(aiClauses) > 0
        THEN [path |-> "ai", clauses |-> aiClauses]
        ELSE [path |-> "basic", clauses |-> splitTextIntoClauses(docText)]

----------------------------------------------------------------------------
(* Per-document analysis (contractAnalyzer.ts: analyzeDocument; openai.ts: *)
(* analyzeClauseWithAI).                                                   *)

\* What the model's chat completion does for one clause analysis request:
\* the request throws, the message has no content, the content is not JSON,
\* or the content is a JSON object.
AiAnalysisOutcomes == {"error", "empty", "malformed", "json"}

\* JSON objects the model answers with; a member that is missing, "" or 0 is
\* falsy and written "" (strings) or 0 (risk_score).
AiAnalysisResults ==
    { [compliance_status |-> "Compliant", risk_score |-> 8, category |-> "Liability"],
      [compliance_status |-> "", risk_score |-> 0, category |-> ""] }

\* a || b for a string a and for a number a
OrElse(a, b) == IF a = "" THEN b ELSE a

OrElseNumber(a, b) == IF a = 0 THEN b ELSE a

\* analyzeClauseWithAI: a failed request, an empty message and malformed JSON
\* all end in its catch block, which returns the default analysis.
analyzeClauseWithAI(clause, ruleList, section, outcome, json) ==
    IF outcome = "json"
    THEN [ compliance_status |-> OrElse(json.compliance_status, "Review Needed"),
           risk_score        |-> OrElseNumber(json.risk_score, 5),
           category          |-> OrElse(json.category, OrElse(section, "General")),
           recommendations   |-> <<>>,
           compliance_issues |-> <<>> ]
    ELSE [ compliance_status |-> "Review Needed",
           risk_score        |-> 5,
           category          |-> OrElse(section, "General"),
           recommendations   |-> <<"AI Analysis Failed">>,
           compliance_issues |-> <<>> ]

batchSize == 5

\* Variant of analyzedClauseOf that stores the 50-character excerpt the
\* progress log prints.
analyzedClauseExcerpt(clause, section, index, result, docId) ==
    [ clause            |-> SubSeq(clause, 1, Min(50, Len(clause))),
      section           |-> section,
      page              |-> (index \div 4) + 1,
      category          |-> result.category,
      risk_score        |-> result.risk_score,
      compliance_status |-> result.compliance_status,
      document_id       |-> docId,
      recommendations   |-> result.recommendations,
      compliance_issues |-> result.compliance_issues ]

\* The InsertClause record built for the clause at 0-based index; absent
\* recommendations / compliance_issues are written as empty lists.
analyzedClauseOf(clause, section, index, result, docId) ==
    [ clause            |-> clause,
      section           |-> section,
      page              |-> (index \div 4) + 1,
      category          |-> result.category,
      risk_score        |-> result.risk_score,
      compliance_status |-> result.compliance_status,
      document_id       |-> docId,
      recommendations   |-> result.recommendations,
      compliance_issues |-> result.compliance_issues ]

\* Variant of delayAfter that also sleeps after the last clause.
delayAfterEveryBatch(index, n) == index % batchSize = batchSize - 1

\* The delay after the clause at 0-based index of a list of n clauses.
delayAfter(index, n) == index % batchSize = batchSize - 1 /\ index < n - 1

----------------------------------------------------------------------------
(* Regular expressions, matched as the JavaScript engine matches them:     *)
(* leftmost start, alternatives in order, greedy repetition with           *)
(* backtracking.                                                           *)

Digits == {"0", "1", "2", "3", "4", "5", "6", "7", "8", "9"}

LowerLetters == {UpperToLower[c] : c \in DOMAIN UpperToLower}

\* The nodes of a pattern: a literal, a repeated character class (min is 0
\* or 1; many is FALSE for "?"), alternatives, a concatenation, and the
\* capture group.
Lit(chars) == [kind |-> "lit", chars |-> chars]

Rep(class, min, many) == [kind |-> "rep", class |-> class, min |-> min, many |-> many]

Alt(nodes) == [kind |-> "alt", nodes |-> nodes]

Cat(nodes) == [kind |-> "cat", nodes |-> nodes]

Grp(node) == [kind |-> "grp", node |-> node]

\* x? for a literal x
Opt(chars) == Alt(<<Lit(chars), Lit(<<>>)>>)

RECURSIVE Flatten(_)
Flatten(seqs) == IF seqs = <<>> THEN <<>> ELSE Head(seqs) \o Flatten(Tail(seqs))

\* The number of characters of s from position p on that are in the class.
classRun(s, p, class) ==
    LET stop == CHOOSE q \in p..(Len(s) + 1) :
                    /\ q = Len(s) + 1 \/ s[q] \notin class
                    /\ \A r \in p..(q - 1) : s[r] \in class
    IN  stop - p

\* The ways the node matches s from position p, in the order the engine
\* tries them: the position after the match and the span of the capture
\* group (<<>> when the group took no part).
RECURSIVE regexEnds(_, _, _)
RECURSIVE catEnds(_, _, _)
regexEnds(node, s, p) ==
    CASE node.kind = "lit" ->
            IF p + Len(node.chars) - 1 <= Len(s)
               /\ SubSeq(s, p, p + Len(node.chars) - 1) = node.chars
            THEN << [pos |-> p + Len(node.chars), cap |-> <<>>] >>
            ELSE <<>>
      [] node.kind = "rep" ->
            LET run == classRun(s, p, node.class)
                most == IF node.many THEN run ELSE Min(run, 1)
            IN  IF most < node.min THEN <<>>
                ELSE [k \in 1..(most - node.min + 1) |-> [pos |-> p + most - k + 1, cap |-> <<>>]]
      [] node.kind = "alt" ->
            Flatten([k \in 1..Len(node.nodes) |-> regexEnds(node.nodes[k], s, p)])
      [] node.kind = "cat" ->
            catEnds(node.nodes, s, << [pos |-> p, cap |-> <<>>] >>)
      [] node.kind = "grp" ->
            LET inner == regexEnds(node.node, s, p)
            IN  [k \in 1..Len(inner) |-> [pos |-> inner[k].pos, cap |-> <<p, inner[k].pos>>]]

catEnds(nodes, s, sofar) ==
    IF nodes = <<>> THEN sofar
    ELSE catEnds(Tail(nodes), s,
                 Flatten([k \in 1..Len(sofar) |->
                            LET next == regexEnds(Head(nodes), s, sofar[k].pos)
                            IN  [j \in 1..Len(next) |->
                                    [pos |-> next[j].pos,
                                     cap |-> IF next[j].cap = <<>> THEN sofar[k].cap
                                             ELSE next[j].cap]]]))

\* String.prototype.match without the g flag: found, the whole match ([0])
\* and the capture group ([1]).
matchResult(s, start, first) ==
    [found |-> TRUE,
     whole |-> SubSeq(s, start, first.pos - 1),
     group |-> IF first.cap = <<>> THEN <<>>
               ELSE SubSeq(s, first.cap[1], first.cap[2] - 1)]

\* The match at the leftmost of the positions where the pattern matches.
matchAt(s, pattern, start) == matchResult(s, start, regexEnds(pattern, s, start)[1])

matchAmong(s, pattern, starts) ==
    IF starts = {} THEN [found |-> FALSE, whole |-> <<>>, group |-> <<>>]
    ELSE matchAt(s, pattern, CHOOSE p \in starts : \A q \in starts : p <= q)

match(s, pattern) ==
    matchAmong(s, pattern, {p \in 1..(Len(s) + 1) : regexEnds(pattern, s, p) # <<>>})

----------------------------------------------------------------------------
(* Payment term extraction without AI (routes.ts).                         *)

SubInvoice ==
    <<"i","n","v","o","i","c","e">>

SubNet ==
    <<"n","e","t">>

SubDue ==
    <<"d","u","e">>

SubPaid ==
    <<"p","a","i","d">>

SubPayWithin ==
    <<"p","a","y"," ","w","i","t","h","i","n">>

SubDay ==
    <<"d","a","y">>

SubPay ==
    <<"p","a","y">>

SubMent ==
    <<"m","e","n","t">>

SubWithin ==
    <<"w","i","t","h","i","n">>

SubIn ==
    <<"i","n">>

SubLate ==
    <<"l","a","t","e">>

SubCharge ==
    <<"c","h","a","r","g","e">>

SubOf ==
    <<"o","f">>

SubPercent ==
    <<"p","e","r","c","e","n","t">>

PaymentTermsNet ==
    <<"P","a","y","m","e","n","t"," ","t","e","r","m","s",":"," ","N","e","t"," ">>

PaymentDueWithin ==
    <<"P","a","y","m","e","n","t"," ","d","u","e"," ","w","i","t","h","i","n"," ">>

DaysStop ==
    <<" ","d","a","y","s",".">>

LatePaymentFeeOf ==
    <<"L","a","t","e"," ","p","a","y","m","e","n","t"," ","f","e","e"," ","o","f"," ">>

Applies ==
    <<" ","a","p","p","l","i","e","s",".">>

SamplePaymentClause ==
    <<"P","a","y","m","e","n","t"," ","t","e","r","m","s"," ","s","h","a","l","l"," ","b","e",
      " ","n","e","t"," ","3","0"," ","d","a","y","s"," ","f","r","o","m"," ","r","e","c","e",
      "i","p","t"," ","o","f"," ","i","n","v","o","i","c","e","."," ","A"," ","l","a","t","e",
      " ","p","a","y","m","e","n","t"," ","f","e","e"," ","o","f"," ","1",".","5","%"," ","p",
      "e","r"," ","m","o","n","t","h"," ","w","i","l","l"," ","b","e"," ","a","s","s","e","s",
      "s","e","d"," ","o","n"," ","a","l","l"," ","o","v","e","r","d","u","e"," ","a","m","o",
      "u","n","t","s",".">>


\* /net\s+([0-9]+)\s+days?/i
netDaysPattern ==
    Cat(<<Lit(SubNet), Rep(WhiteSpace, 1, TRUE), Grp(Rep(Digits, 1, TRUE)),
          Rep(WhiteSpace, 1, TRUE), Lit(SubDay), Rep({"s"}, 0, FALSE)>>)

\* /pay(?:ment)?\s+within\s+([0-9]+)\s+days?/i
payWithinPattern ==
    Cat(<<Lit(SubPay), Opt(SubMent), Rep(WhiteSpace, 1, TRUE), Lit(SubWithin),
          Rep(WhiteSpace, 1, TRUE), Grp(Rep(Digits, 1, TRUE)), Rep(WhiteSpace, 1, TRUE),
          Lit(SubDay), Rep({"s"}, 0, FALSE)>>)

\* /due\s+(?:within|in)\s+([0-9]+)\s+days?/i
duePattern ==
    Cat(<<Lit(SubDue), Rep(WhiteSpace, 1, TRUE), Alt(<<Lit(SubWithin), Lit(SubIn)>>),
          Rep(WhiteSpace, 1, TRUE), Grp(Rep(Digits, 1, TRUE)), Rep(WhiteSpace, 1, TRUE),
          Lit(SubDay), Rep({"s"}, 0, FALSE)>>)

\* /late\s+(?:fee|payment|charge)\s+of\s+([0-9\.]+%|[0-9\.]+\s+percent)/i
lateFeePattern ==
    Cat(<<Lit(SubLate), Rep(WhiteSpace, 1, TRUE),
          Alt(<<Lit(SubFee), Lit(SubPayment), Lit(SubCharge)>>),
          Rep(WhiteSpace, 1, TRUE), Lit(SubOf), Rep(WhiteSpace, 1, TRUE),
          Grp(Alt(<<Cat(<<Rep(Digits \cup {"."}, 1, TRUE), Lit(<<"%">>)>>),
                    Cat(<<Rep(Digits \cup {"."}, 1, TRUE), Rep(WhiteSpace, 1, TRUE),
                          Lit(SubPercent)>>)>>))>>)

\* The filter of basicPaymentTermExtraction: the clause mentions a payment.
isPaymentRelated(clause) ==
    LET lower == toLowerCase(clause)
    IN  \/ includes(lower, SubPayment)
        \/ includes(lower, SubInvoice)
        \/ includes(lower, SubNet)
        \/ includes(lower, SubDue)
        \/ includes(lower, SubPaid)
        \/ includes(lower, SubPayWithin)

\* paymentTermOf without the verbatim return for short clauses.
paymentTermAlwaysNormalized(clause) ==
    LET clause_text == toLowerCase(clause)
        net_days_match == match(clause_text, netDaysPattern)
        pay_within_match == match(clause_text, payWithinPattern)
        due_match == match(clause_text, duePattern)
        late_fee_match == match(clause_text, lateFeePattern)
    IN  IF net_days_match.found THEN PaymentTermsNet \o net_days_match.group \o DaysStop
        ELSE IF pay_within_match.found
             THEN PaymentDueWithin \o pay_within_match.group \o DaysStop
        ELSE IF due_match.found THEN PaymentDueWithin \o due_match.group \o DaysStop
        ELSE IF late_fee_match.found THEN LatePaymentFeeOf \o late_fee_match.group \o Applies
        ELSE <<>>

\* The map callback of basicPaymentTermExtraction; <<>> stands for null
\* (filter(Boolean) drops null and the empty string alike).
paymentTermOf(clause) ==
    LET clause_text == toLowerCase(clause)
        net_days_match == match(clause_text, netDaysPattern)
        pay_within_match == match(clause_text, payWithinPattern)
        due_match == match(clause_text, duePattern)
        late_fee_match == match(clause_text, lateFeePattern)
    IN  IF net_days_match.found \/ pay_within_match.found \/ due_match.found
           \/ late_fee_match.found
        THEN IF Len(clause) <= 100 THEN clause
             ELSE IF net_days_match.found
                  THEN PaymentTermsNet \o net_days_match.group \o DaysStop
             ELSE IF pay_within_match.found
                  THEN PaymentDueWithin \o pay_within_match.group \o DaysStop
             ELSE IF due_match.found
                  THEN PaymentDueWithin \o due_match.group \o DaysStop
             ELSE LatePaymentFeeOf \o late_fee_match.group \o Applies
        ELSE <<>>

\* Array.from(new Set(array)): the first occurrence of every element, in order.
RECURSIVE arrayFromSet(_)
arrayFromSet(array) ==
    IF array = <<>> THEN <<>>
    ELSE LET front == arrayFromSet(SubSeq(array, 1, Len(array) - 1))
             last == array[Len(array)]
         IN  IF \E k \in 1..Len(front) : front[k] = last THEN front ELSE Append(front, last)

\* basicPaymentTermExtraction, for the texts of the clauses passed to it
basicPaymentTermExtraction(clauseTexts) ==
    LET paymentRelatedClauses == SelectSeq(clauseTexts, isPaymentRelated)
        extractedTerms ==
            SelectSeq([k \in 1..Len(paymentRelatedClauses) |->
                          paymentTermOf(paymentRelatedClauses[k])],
                      LAMBDA term : term # <<>>)
    IN  arrayFromSet(extractedTerms)

----------------------------------------------------------------------------
(* Fee and rate card extraction without AI (routes.ts).                    *)

WordChars == LowerLetters \cup DOMAIN UpperToLower \cup Digits \cup {"_"}

LowerToUpper == [c \in LowerLetters |-> CHOOSE u \in DOMAIN UpperToLower : UpperToLower[u] = c]

\* name.replace(/\b\w/g, l => l.toUpperCase())
toTitleCase(s) ==
    [k \in 1..Len(s) |->
        IF s[k] \in LowerLetters /\ (k = 1 \/ s[k - 1] \notin WordChars)
        THEN LowerToUpper[s[k]] ELSE s[k]]

\* The characters of the category and section labels, which the model
\* writes as strings.
charsOf(label) ==
    CASE label = "Liability" -> <<"L","i","a","b","i","l","i","t","y">>
      [] label = "IP Rights" -> <<"I","P"," ","R","i","g","h","t","s">>
      [] label = "Confidentiality" -> <<"C","o","n","f","i","d","e","n","t","i","a","l","i","t","y">>
      [] label = "Payment Terms" -> <<"P","a","y","m","e","n","t"," ","T","e","r","m","s">>
      [] label = "Termination" -> <<"T","e","r","m","i","n","a","t","i","o","n">>
      [] label = "Indemnification" -> <<"I","n","d","e","m","n","i","f","i","c","a","t","i","o","n">>
      [] label = "General" -> <<"G","e","n","e","r","a","l">>
      [] label = "1.1" -> <<"1",".","1">>
      [] label = "" -> <<>>

\* A JavaScript Map as the sequence of its <<key, value>> entries in
\* insertion order: map.set(key, value), map.has(key), new Map(entries),
\* Array.from(map.values()).
mapHas(map, key) == \E k \in 1..Len(map) : map[k][1] = key

mapSet(map, key, value) ==
    IF mapHas(map, key)
    THEN [k \in 1..Len(map) |-> IF map[k][1] = key THEN <<key, value>> ELSE map[k]]
    ELSE Append(map, <<key, value>>)

RECURSIVE newMap(_)
newMap(entries) ==
    IF entries = <<>> THEN <<>>
    ELSE mapSet(newMap(SubSeq(entries, 1, Len(entries) - 1)),
                entries[Len(entries)][1], entries[Len(entries)][2])

mapValues(map) == [k \in 1..Len(map) |-> map[k][2]]

\* /(?:a|an|the)\s+([a-z\s]+(?:fee|charge|payment))/i
feeNamePattern ==
    Cat(<<Alt(<<Lit(<<"a">>), Lit(<<"a","n">>), Lit(<<"t","h","e">>)>>), Rep(WhiteSpace, 1, TRUE),
          Grp(Cat(<<Rep(LowerLetters \cup WhiteSpace, 1, TRUE),
                    Alt(<<Lit(<<"f","e","e">>), Lit(<<"c","h","a","r","g","e">>),
                Lit(<<"p","a","y","m","e","n","t">>)>>)>>))>>)

\* /\$\s*([0-9,\.]+)|([0-9,\.]+)\s*dollars/i
amountPattern ==
    Alt(<<Cat(<<Lit(<<"$">>), Rep(WhiteSpace, 0, TRUE), Rep(Digits \cup {",", "."}, 1, TRUE)>>),
          Cat(<<Rep(Digits \cup {",", "."}, 1, TRUE), Rep(WhiteSpace, 0, TRUE),
                Lit(<<"d","o","l","l","a","r","s">>)>>)>>)

\* /([0-9\.]+)\s*(?:percent|%)/i
percentagePattern ==
    Cat(<<Rep(Digits \cup {"."}, 1, TRUE), Rep(WhiteSpace, 0, TRUE),
          Alt(<<Lit(<<"p","e","r","c","e","n","t">>), Lit(<<"%">>)>>)>>)

\* /(?:per|each|every)\s+(month|year|quarter|week|day|hour|annum)/i
frequencyPattern ==
    Cat(<<Alt(<<Lit(<<"p","e","r">>), Lit(<<"e","a","c","h">>), Lit(<<"e","v","e","r","y">>)>>),
          Rep(WhiteSpace, 1, TRUE),
          Grp(Alt(<<Lit(<<"m","o","n","t","h">>), Lit(<<"y","e","a","r">>),
                Lit(<<"q","u","a","r","t","e","r">>), Lit(<<"w","e","e","k">>),
                Lit(<<"d","a","y">>), Lit(<<"h","o","u","r">>), Lit(<<"a","n","n","u","m">>)>>))>>)

\* /(?:for|of)\s+([a-z\s]+(?:service|support|consultation|assistance|work))/i
servicePattern ==
    Cat(<<Alt(<<Lit(<<"f","o","r">>), Lit(<<"o","f">>)>>), Rep(WhiteSpace, 1, TRUE),
          Grp(Cat(<<Rep(LowerLetters \cup WhiteSpace, 1, TRUE),
                    Alt(<<Lit(<<"s","e","r","v","i","c","e">>), Lit(<<"s","u","p","p","o","r","t">>),
                Lit(<<"c","o","n","s","u","l","t","a","t","i","o","n">>),
                Lit(<<"a","s","s","i","s","t","a","n","c","e">>), Lit(<<"w","o","r","k">>)>>)>>))>>)

\* /(?:per|each|every)\s+(hour|day|week|month|year|project|item|unit)/i
unitPattern ==
    Cat(<<Alt(<<Lit(<<"p","e","r">>), Lit(<<"e","a","c","h">>), Lit(<<"e","v","e","r","y">>)>>),
          Rep(WhiteSpace, 1, TRUE),
          Grp(Alt(<<Lit(<<"h","o","u","r">>), Lit(<<"d","a","y">>), Lit(<<"w","e","e","k">>),
                Lit(<<"m","o","n","t","h">>), Lit(<<"y","e","a","r">>),
                Lit(<<"p","r","o","j","e","c","t">>), Lit(<<"i","t","e","m">>),
                Lit(<<"u","n","i","t">>)>>))>>)

\* The filter of basicFeeExtraction: the clause mentions a fee.
isFeeRelated(clause) ==
    LET lower == toLowerCase(clause.clause)
    IN  \/ includes(lower, SubFee)
        \/ includes(lower, SubPayment)
        \/ includes(lower, <<"c","o","s","t">>)
        \/ includes(lower, <<"p","r","i","c","e">>)
        \/ includes(lower, <<"c","h","a","r","g","e">>)

\* clause.clause.substring(0, 100) + (clause.clause.length > 100 ? "..." : "")
descriptionOf(clause) ==
    IF Len(clause) > 100 THEN SubSeq(clause, 1, 100) \o <<".", ".", ".">> ELSE clause

\* The map callback of basicFeeExtraction; an undefined frequency is <<>>.
feeOf(clause) ==
    LET clause_text == toLowerCase(clause.clause)
        fee_name_match == match(clause_text, feeNamePattern)
        amount_match == match(clause_text, amountPattern)
        percentage_match == match(clause_text, percentagePattern)
        frequency_match == match(clause_text, frequencyPattern)
    IN  [ name        |-> IF fee_name_match.found THEN toTitleCase(trim(fee_name_match.group))
                          ELSE <<"U","n","s","p","e","c","i","f","i","e","d"," ","F","e","e">>,
          amount      |-> IF amount_match.found THEN amount_match.whole
                          ELSE IF percentage_match.found THEN percentage_match.whole
                          ELSE <<"S","e","e"," ","c","o","n","t","r","a","c","t"," ","f","o","r"," ","d","e","t","a","i","l","s">>,
          frequency   |-> IF frequency_match.found THEN frequency_match.group ELSE <<>>,
          category    |-> OrElse(clause.category, "General Fee"),
          description |-> descriptionOf(clause.clause) ]

feesOf(feeRelatedClauses) ==
    [k \in 1..Len(feeRelatedClauses) |-> feeOf(feeRelatedClauses[k])]

\* Array.from(new Map(extractedFees.map(fee => [fee.name, fee])).values())
uniqueFees(extractedFees) ==
    mapValues(newMap([k \in 1..Len(extractedFees) |->
                         <<extractedFees[k].name, extractedFees[k]>>]))

\* basicFeeExtraction: one fee per fee-related clause, de-duplicated by name.
basicFeeExtraction(clauseList) == uniqueFees(feesOf(SelectSeq(clauseList, isFeeRelated)))

\* The filter of basicRateCardExtraction: the clause mentions a cost.
isCostRelated(clause) ==
    LET lower == toLowerCase(clause.clause)
    IN  \/ includes(lower, <<"p","r","i","c","e">>)
        \/ includes(lower, <<"r","a","t","e">>)
        \/ includes(lower, <<"c","o","s","t">>)
        \/ includes(lower, <<"c","h","a","r","g","e">>)
        \/ includes(lower, <<"$">>)
        \/ includes(lower, <<"d","o","l","l","a","r">>)

\* The map callback of basicRateCardExtraction, for a clause in which
\* amount_match found a rate (the others give null and are filtered out); an
\* undefined unit is <<>>.
rateCardItemOf(clause) ==
    LET clause_text == toLowerCase(clause.clause)
        service_match == match(clause_text, servicePattern)
        amount_match == match(clause_text, amountPattern)
        unit_match == match(clause_text, unitPattern)
    IN  [ item |-> IF service_match.found THEN toTitleCase(trim(service_match.group))
                   ELSE IF clause.category # "" THEN charsOf(clause.category)
                   ELSE <<"G","e","n","e","r","a","l"," ","S","e","r","v","i","c","e">>,
          rate |-> amount_match.whole,
          unit |-> IF unit_match.found THEN <<"p","e","r"," ">> \o unit_match.group ELSE <<>> ]

rateCardItemsOf(costRelatedClauses) ==
    [k \in 1..Len(costRelatedClauses) |-> rateCardItemOf(costRelatedClauses[k])]

\* Array.from(new Map(extractedItems.map(item => [item.item, item])).values())
uniqueItems(extractedItems) ==
    mapValues(newMap([k \in 1..Len(extractedItems) |->
                         <<extractedItems[k].item, extractedItems[k]>>]))

\* basicRateCardExtraction: one item per cost-related clause with an amount,
\* de-duplicated by item name.
basicRateCardExtraction(clauseList) ==
    uniqueItems(rateCardItemsOf(
        SelectSeq(clauseList,
                  LAMBDA c : isCostRelated(c)
                             /\ match(toLowerCase(c.clause), amountPattern).found)))

----------------------------------------------------------------------------
(* State.                                                                  *)

VARIABLES
    \* environment
    apiKey,         \* process.env.OPENAI_API_KEY is set
    \* heuristic analysis of one clause
    clauseText,     \* the clause analysed
    rules,          \* the rule list passed to the analysis
    matches,        \* basicClauseAnalysis: the matches array
    analysis,       \* the analysis returned
    analysisPc,     \* "idle", "ready" before the call, "returned" after it
    \* segmentation of one document
    text,           \* extractClauses: the text extracted from the document
    textLength,     \* number of blocks the text was read in
    aiOutcome,      \* what the segmentation request to the model did
    extracted,      \* the clause list extractClauses returned
    extractedBy,    \* "ai" or "basic": which log line reported the clauses
    segmentPc,      \* "idle", "reading", "returned", "thrown"
    \* analyzeDocument
    clauses,        \* the clause strings to analyse
    documentId,     \* the document id argument
    i,              \* the loop index (0-based)
    analyzedClauses,\* the records pushed so far
    aiFailed,       \* per record: the request to the model failed
    delayedAfter,   \* the indexes after which the loop slept
    documentPc,     \* "idle", "loop", "delay", "returned"
    \* storage and request handlers
    clausesTable,   \* storage: the clauses rows
    clauseSerial,   \* storage: the id the next inserted clause gets
    complianceRules,\* storage: the compliance rules rows
    ruleSerial,     \* storage: the id the next inserted rule gets
    contractSummaries, \* storage: the contract_summaries rows
    now,            \* the last value Date.now() returned
    requests,       \* per request: handler, position and local variables
    \* an operation called on its own
    callArgument,   \* the argument passed to the operation
    callResult,     \* the value it returned
    callPc,         \* "idle", "ready" before the call, "returned" after it
    memContractSummaries, \* MemStorage: the contractSummaries Map
    lastCreated,    \* per storage and documentId: the summary last passed to
                    \* createContractSummary, while no other write followed
    clausesList,    \* MemStorage: the clausesList Map
    clauseCurrentId,\* MemStorage: the id the next created clause gets
    createdIds      \* history: the ids createClause returned, in call order

analyzerVars == <<clauseText, rules, matches, analysis, analysisPc>>

segmentVars == <<text, textLength, aiOutcome, extracted, extractedBy, segmentPc>>

documentVars ==
    <<clauses, documentId, i, analyzedClauses, aiFailed, delayedAfter, documentPc>>

storageVars ==
    <<clausesTable, clauseSerial, complianceRules, ruleSerial, contractSummaries>>

serverVars == <<storageVars, now, requests>>

memClauseVars == <<clausesList, clauseCurrentId, createdIds>>

callVars ==
    <<callArgument, callResult, callPc, memContractSummaries, lastCreated, memClauseVars>>

\* The clauses of MemStorage are not part of the run.
IdleMemClauses ==
    /\ clausesList = <<>>
    /\ clauseCurrentId = 1
    /\ createdIds = <<>>

vars == <<apiKey, analyzerVars, segmentVars, documentVars, serverVars, callVars>>

NoAnalysis ==
    [ compliance_status |-> "none", risk_score |-> 0, category |-> "none",
      recommendations |-> <<>>, compliance_issues |-> <<>> ]

\* No clause analysis is under way.
IdleAnalyzer ==
    /\ clauseText = <<>>
    /\ rules = <<>>
    /\ matches = <<>>
    /\ analysis = NoAnalysis
    /\ analysisPc = "idle"

\* No segmentation is under way.
IdleSegmenter ==
    /\ text = <<>>
    /\ textLength = 0
    /\ aiOutcome = "none"
    /\ extracted = <<>>
    /\ extractedBy = "none"
    /\ segmentPc = "idle"

\* The server is not part of the run.
IdleServer ==
    /\ clausesTable = {}
    /\ clauseSerial = 1
    /\ complianceRules = <<>>
    /\ ruleSerial = 1
    /\ contractSummaries = {}
    /\ now = 0
    /\ requests = <<>>

\* No document analysis is under way.
IdleCall ==
    /\ callArgument = <<>>
    /\ callResult = <<>>
    /\ callPc = "idle"
    /\ memContractSummaries = <<>>
    /\ lastCreated = <<>>
    /\ IdleMemClauses

IdleDocument ==
    /\ clauses = <<>>
    /\ documentId = 0
    /\ i = 0
    /\ analyzedClauses = <<>>
    /\ aiFailed = <<>>
    /\ delayedAfter = {}
    /\ documentPc = "idle"

----------------------------------------------------------------------------
(* Heuristic analysis of one clause against one rule list.                 *)

InitAnalyze ==
    /\ apiKey = FALSE
    /\ clauseText \in ClausePool
    /\ rules \in RuleLists
    /\ matches = <<>>
    /\ analysis = NoAnalysis
    /\ analysisPc = "ready"
    /\ IdleSegmenter
    /\ IdleDocument
    /\ IdleServer
    /\ IdleCall

\* One call of basicClauseAnalysis with its three random draws.
BasicAnalyze ==
    /\ analysisPc = "ready"
    /\ LET matchList == ruleMatches(clauseText, rules)
           keywordCat == keywordCategory(clauseText)
       IN  /\ matches' = matchList
           /\ \E coin \in CoinDraws, base \in BaseDraws, catIdx \in CategoryDraws :
                analysis' = analysisOf(matchList, keywordCat, coin, base, catIdx)
    /\ analysisPc' = "returned"
    /\ UNCHANGED <<apiKey, clauseText, rules, segmentVars, documentVars, serverVars, callVars>>

NextAnalyze == BasicAnalyze

SpecAnalyze == InitAnalyze /\ [][NextAnalyze]_vars

----------------------------------------------------------------------------
(* Segmentation of one document text.                                      *)

\* A run of n letters.
Word(n) == [k \in 1..n |-> "a"]

\* The pieces document texts are composed of: a word run shorter than a
\* clause, one longer than MinClauseLength, a full stop, a blank line, a blank
\* line holding a space, and a space.
TextBlocks ==
    { Word(26), Word(MinClauseLength + 1), <<".">>, <<"\n", "\n">>, <<"\n", " ", "\n">>, <<" ">> }

\* Largest number of blocks in a document text.
MaxBlocks == 4

\* A clause list the model returns for a segmentation request.
AiClauseList == << Word(MinClauseLength + 1) \o <<".">> >>

InitSegment ==
    /\ apiKey \in BOOLEAN
    /\ IdleAnalyzer
    /\ IdleDocument
    /\ IdleServer
    /\ IdleCall
    /\ text = <<>>
    /\ textLength = 0
    /\ aiOutcome = "none"
    /\ extracted = <<>>
    /\ extractedBy = "none"
    /\ segmentPc = "reading"

\* extractTextFromDocx / extractTextFromPdf deliver the text (block by block).
ReadText ==
    /\ segmentPc = "reading"
    /\ textLength < MaxBlocks
    /\ \E block \in TextBlocks : text' = text \o block
    /\ textLength' = textLength + 1
    /\ UNCHANGED <<apiKey, analyzerVars, documentVars, serverVars, callVars, aiOutcome, extracted, extractedBy,
                   segmentPc>>

\* Text extraction throws: extractClauses rethrows
\* "Failed to extract clauses from document".
ExtractTextFails ==
    /\ segmentPc = "reading"
    /\ segmentPc' = "thrown"
    /\ UNCHANGED <<apiKey, analyzerVars, documentVars, serverVars, callVars, text, textLength, aiOutcome,
                   extracted, extractedBy>>

\* extractClauses on the extracted text.
ExtractClauses ==
    /\ segmentPc = "reading"
    /\ \E outcome \in (IF apiKey THEN AiSegmentOutcomes ELSE {"none"}) :
         LET result == extractClauses(text, apiKey, outcome, AiClauseList)
         IN  /\ aiOutcome' = outcome
             /\ extracted' = result.clauses
             /\ extractedBy' = result.path
    /\ segmentPc' = "returned"
    /\ UNCHANGED <<apiKey, analyzerVars, documentVars, serverVars, callVars, text, textLength>>

NextSegment == ReadText \/ ExtractTextFails \/ ExtractClauses

SpecSegment == InitSegment /\ [][NextSegment]_vars

----------------------------------------------------------------------------
(* analyzeDocument on one clause list.                                     *)

\* The clause texts of the analysed documents: one that the initial rules
\* forbid and one that only an allowed rule matches.
DocumentClausePool == <<TextLiabilityCap, TextIpOwner>>

\* The document of n clauses that alternates between the two texts, starting
\* with the text numbered first.
SampleDocument(n, first) ==
    [k \in 1..n |-> DocumentClausePool[((k + first) % 2) + 1]]

DocumentIds == {1, 2}

\* Largest number of clauses in a document.
MaxClauses == 6

\* The random section labels considered: sampleSections[0].
SectionDraws == {0}

InitDocument ==
    /\ apiKey \in BOOLEAN
    /\ clauseText = <<>>
    /\ rules = InitialRules
    /\ matches = <<>>
    /\ analysis = NoAnalysis
    /\ analysisPc = "idle"
    /\ IdleSegmenter
    /\ IdleServer
    /\ IdleCall
    /\ clauses \in {SampleDocument(n, first) : n \in 0..MaxClauses, first \in 1..2}
    /\ documentId \in DocumentIds
    /\ i = 0
    /\ analyzedClauses = <<>>
    /\ aiFailed = <<>>
    /\ delayedAfter = {}
    /\ documentPc = "loop"

\* The analyses one loop iteration can obtain for a clause, each with the
\* flag telling that the request to the model failed.
clauseAnalyses(clause, ruleList, section, keyConfigured) ==
    IF keyConfigured
    THEN { [failed |-> outcome # "json",
            result |-> analyzeClauseWithAI(clause, ruleList, section, outcome, json)] :
              outcome \in AiAnalysisOutcomes, json \in AiAnalysisResults }
    ELSE { [failed |-> FALSE, result |-> r] :
              r \in basicClauseAnalysisResults(clause, ruleList, section) }

\* One iteration of the for loop: analyse clauses[i], push the record, then
\* sleep, go on or return.
AnalyzeClause ==
    /\ documentPc = "loop"
    /\ i < Len(clauses)
    /\ \E draw \in SectionDraws :
         LET section == sampleSections[draw + 1]
         IN  \E a \in clauseAnalyses(clauses[i + 1], rules, section, apiKey) :
                /\ analyzedClauses' =
                     Append(analyzedClauses,
                            analyzedClauseOf(clauses[i + 1], section, i, a.result, documentId))
                /\ aiFailed' = Append(aiFailed, a.failed)
    /\ i' = i + 1
    /\ documentPc' = IF delayAfter(i, Len(clauses)) THEN "delay"
                     ELSE IF i + 1 < Len(clauses) THEN "loop" ELSE "returned"
    /\ delayedAfter' = IF delayAfter(i, Len(clauses)) THEN delayedAfter \cup {i}
                       ELSE delayedAfter
    /\ UNCHANGED <<apiKey, analyzerVars, segmentVars, serverVars, callVars, clauses, documentId>>

\* The 500 ms timer of the batch delay fires.
DelayElapsed ==
    /\ documentPc = "delay"
    /\ documentPc' = "loop"
    /\ UNCHANGED <<apiKey, analyzerVars, segmentVars, serverVars, callVars, clauses, documentId, i,
                   analyzedClauses, aiFailed, delayedAfter>>

\* The loop is over (empty clause list): return analyzedClauses.
ReturnAnalyzed ==
    /\ documentPc = "loop"
    /\ i >= Len(clauses)
    /\ documentPc' = "returned"
    /\ UNCHANGED <<apiKey, analyzerVars, segmentVars, serverVars, callVars, clauses, documentId, i,
                   analyzedClauses, aiFailed, delayedAfter>>

NextDocument == AnalyzeClause \/ DelayElapsed \/ ReturnAnalyzed

SpecDocument == InitDocument /\ [][NextDocument]_vars

----------------------------------------------------------------------------
(* Request handlers (routes.ts) working on the storage (db-storage.ts).    *)
(* A handler runs from one await to the next in one step; the steps of    *)
(* different requests interleave.                                          *)

\* Number of requests the server receives: uploads and resets.
MaxRequests == 2

\* Number of extraction requests the server receives after an upload.
MaxExtractRequests == 3

\* Number of requests (mark-complete, reset, upload) the server receives
\* after a first upload, and the number of uploads among them.
MaxReviewRequests == 3

MaxReviewUploads == 2

\* Number of requests (rule creations, edits and deletions, upload) the
\* server receives after a first upload, and the number of uploads among them.
MaxRuleRequests == 3

MaxRuleUploads == 2

\* The request slots.
Requests ==
    1..Max(Max(MaxRequests, MaxExtractRequests), Max(MaxReviewRequests, MaxRuleRequests))

\* The clause lists extractClauses returns for the uploaded documents.
UploadedDocuments == { <<>>, <<TextLiabilityCap>>, <<TextIpOwner, TextLiabilityCap>> }

\* The base draws considered in the analyses that uploads run.
RequestBaseDraws == {5}

\* The JSON answers of the AI backend considered in the analyses that uploads
\* run.
RequestAiResults ==
    { [compliance_status |-> "Compliant", risk_score |-> 3, category |-> "Liability"] }

\* A request slot before its request arrives; the fields are the handler's
\* local variables (param: the :documentId or :id of the URL), status is the
\* HTTP status of the response (0: none yet). Two fields are history: written
\* is the stored summary right after the request's own write, overlapped
\* tells that an upload was in progress at some moment of the request.
NoRequest ==
    [ handler |-> "none", pc |-> "idle", fileId |-> 0, existingClauses |-> <<>>,
      extractedClauses |-> <<>>, rules |-> <<>>, analyzedClauses |-> <<>>, stored |-> 0,
      param |-> 0, summary |-> [missing |-> TRUE], clauses |-> <<>>, extracted |-> <<>>,
      written |-> [missing |-> TRUE], overlapped |-> FALSE, status |-> 0 ]

\* The handler has responded: its local variables are gone.
Responded(handlerName, fileId, status) ==
    [NoRequest EXCEPT !.handler = handlerName, !.pc = "done", !.fileId = fileId,
                      !.status = status]

\* The handler has responded; its history fields are kept.
RespondedKeeping(request, status) ==
    [NoRequest EXCEPT !.handler = request.handler, !.pc = "done", !.param = request.param,
                      !.summary = request.summary, !.extracted = request.extracted,
                      !.written = request.written, !.overlapped = request.overlapped,
                      !.status = status]

\* Variant of getAllClauses that leaves out the completed rows.
getAllClausesNotCompleted(table) ==
    LET ids == {c.id : c \in {d \in table : ~d.completed}}
    IN  { q \in [1..Cardinality(ids) -> ids] :
            \A a, b \in 1..Cardinality(ids) : a # b => q[a] # q[b] }

\* storage.getAllClauses: the ids of the rows, in any of the orders the
\* SELECT without ORDER BY can return them.
getAllClauses(table) ==
    LET ids == {c.id : c \in table}
    IN  { q \in [1..Cardinality(ids) -> ids] :
            \A a, b \in 1..Cardinality(ids) : a # b => q[a] # q[b] }

\* Variant of deleteClause that leaves a completed clause in place.
deleteClauseUnlessCompleted(table, id) == {c \in table : c.id # id \/ c.completed}

\* storage.deleteClause
deleteClause(table, id) == {c \in table : c.id # id}

\* storage.createClause: the row inserted with the next serial id.
createClause(table, serial, clause) ==
    table \cup {[ id |-> serial, clause |-> clause.clause, section |-> clause.section,
                  page |-> clause.page, category |-> clause.category,
                  risk_score |-> clause.risk_score,
                  compliance_status |-> clause.compliance_status,
                  document_id |-> clause.document_id, completed |-> clause.completed ]}

Net30Days ==
    <<"N","e","t"," ","3","0"," ","d","a","y","s">>

ContractAgreement ==
    <<"C","o","n","t","r","a","c","t"," ","A","g","r","e","e","m","e","n","t"," ">>

CompanyA ==
    <<"C","o","m","p","a","n","y"," ","A">>

CompanyB ==
    <<"C","o","m","p","a","n","y"," ","B">>

TwelveMonths ==
    <<"1","2"," ","m","o","n","t","h","s">>

BasicService ==
    <<"B","a","s","i","c"," ","S","e","r","v","i","c","e">>

Rate1000 ==
    <<"$","1",",","0","0","0">>

PerMonth ==
    <<"p","e","r"," ","m","o","n","t","h">>

PremiumSupport ==
    <<"P","r","e","m","i","u","m"," ","S","u","p","p","o","r","t">>

Rate150 ==
    <<"$","1","5","0">>

PerHour ==
    <<"p","e","r"," ","h","o","u","r">>

SetupFee ==
    <<"S","e","t","u","p"," ","F","e","e">>

Amount500 ==
    <<"$","5","0","0">>

OneTime ==
    <<"o","n","e","-","t","i","m","e">>

SetupFeeDescription ==
    <<"O","n","e","-","t","i","m","e"," ","s","e","t","u","p"," ","f","e","e"," ","c","h","a",
      "r","g","e","d"," ","a","t"," ","t","h","e"," ","b","e","g","i","n","n","i","n","g"," ",
      "o","f"," ","t","h","e"," ","c","o","n","t","r","a","c","t">>

EpochDay ==
    <<"1","9","7","0","-","0","1","-","0","1">>

FileNameMsa ==
    <<"m","s","a",".","p","d","f">>

\* The text columns and the jsonb columns of contract_summaries.
SummaryTextFields == {"title", "effectiveDate", "termLength", "confidentialityTerms"}

SummaryJsonFields ==
    {"parties", "paymentTerms", "rateCard", "fees", "keyObligations", "terminationClauses"}

\* undefined, as getContractSummary and updateContractSummary return it.
NoSummary == [missing |-> TRUE]

\* dbSummary: each field is summary.field || null. A row holds its non-null
\* columns only: an absent field and an empty string give no column, an
\* array (empty or not) and an object are kept.
dbSummaryOf(summary) ==
    [f \in {g \in DOMAIN summary : ~(g \in SummaryTextFields /\ summary[g] = <<>>)}
        |-> summary[f]]

\* Variant of createContractSummary that keeps the old value of a column the
\* new summary lacks.
createContractSummaryMerging(summaries, summary) ==
    LET conflict == {row \in summaries : row.documentId = summary.documentId}
    IN  IF conflict = {} THEN summaries \cup {dbSummaryOf(summary)}
        ELSE {IF row \in conflict THEN dbSummaryOf(summary) @@ row ELSE row :
                 row \in summaries}

\* Variant of createContractSummary that inserts without the conflict clause
\* and without the unique index.
createContractSummaryInsertOnly(summaries, summary) ==
    summaries \cup {dbSummaryOf(summary)}

\* Variant of createContractSummary that keeps the new summary alone.
createContractSummaryAlone(summaries, summary) == {dbSummaryOf(summary)}

\* DatabaseStorage.createContractSummary: INSERT ... ON CONFLICT (documentId)
\* DO UPDATE SET every column.
createContractSummary(summaries, summary) ==
    LET conflict == {row \in summaries : row.documentId = summary.documentId}
    IN  IF conflict = {} THEN summaries \cup {dbSummaryOf(summary)}
        ELSE {IF row \in conflict THEN dbSummaryOf(summary) ELSE row : row \in summaries}

\* The summary getContractSummary builds from a row: its text columns as
\* (column || undefined), its jsonb columns as they are.
summaryOfRow(row) ==
    [f \in {g \in DOMAIN row : ~(g \in SummaryTextFields /\ row[g] = <<>>)} |-> row[f]]

\* Variant of getContractSummary that returns the jsonb arrays reversed.
getContractSummaryReversed(summaries, docId) ==
    LET selected == {row \in summaries : row.documentId = docId}
        summary == summaryOfRow(CHOOSE row \in selected : TRUE)
    IN  IF selected = {} THEN NoSummary
        ELSE [f \in DOMAIN summary |->
                 IF f \in SummaryJsonFields \ {"parties"}
                 THEN [k \in 1..Len(summary[f]) |-> summary[f][Len(summary[f]) + 1 - k]]
                 ELSE summary[f]]

\* DatabaseStorage.getContractSummary: the first row selected by documentId.
getContractSummary(summaries, docId) ==
    LET selected == {row \in summaries : row.documentId = docId}
    IN  IF selected = {} THEN NoSummary
        ELSE summaryOfRow(CHOOSE row \in selected : TRUE)

\* DatabaseStorage.updateContractSummary: nothing without a row of that
\* documentId; else UPDATE ... SET every column WHERE documentId. The SELECT
\* and the UPDATE are one step: no operation deletes a summary row.
updateContractSummary(summaries, docId, summary) ==
    IF \A row \in summaries : row.documentId # docId THEN summaries
    ELSE {IF row.documentId = docId THEN dbSummaryOf(summary) ELSE row : row \in summaries}

\* MemStorage.getContractSummary: this.contractSummaries.get(documentId)
memGetContractSummary(map, docId) ==
    IF mapHas(map, docId)
    THEN (CHOOSE entry \in {map[k] : k \in 1..Len(map)} : entry[1] = docId)[2]
    ELSE NoSummary

\* MemStorage.createContractSummary: this.contractSummaries.set(documentId, summary)
memCreateContractSummary(map, summary) == mapSet(map, summary.documentId, summary)

\* MemStorage.updateContractSummary
memUpdateContractSummary(map, docId, summary) ==
    IF mapHas(map, docId) THEN mapSet(map, docId, summary) ELSE map

\* The analyses an upload can obtain for one clause.
requestAnalyses(clause, ruleList, section, keyConfigured) ==
    IF keyConfigured
    THEN { analyzeClauseWithAI(clause, ruleList, section, outcome, json) :
              outcome \in {"error", "json"}, json \in RequestAiResults }
    ELSE LET matchList == ruleMatches(clause, ruleList)
             keywordCat == keywordCategory(clause)
         IN  { analysisOf(matchList, keywordCat, coin, base, 0) :
                  coin \in CoinDraws, base \in RequestBaseDraws }

\* The lists analyzeDocument can return for a clause list, from the clause
\* at index k (1-based) on.
RECURSIVE analyzeDocumentFrom(_, _, _, _, _)
analyzeDocumentFrom(clauseList, ruleList, docId, keyConfigured, k) ==
    IF k > Len(clauseList) THEN {<<>>}
    ELSE LET records ==
                UNION { { analyzedClauseOf(clauseList[k], sampleSections[draw + 1], k - 1, a,
                                           docId) :
                            a \in requestAnalyses(clauseList[k], ruleList,
                                                  sampleSections[draw + 1], keyConfigured) } :
                        draw \in SectionDraws }
         IN  { <<rec>> \o rest :
                 rec \in records,
                 rest \in analyzeDocumentFrom(clauseList, ruleList, docId, keyConfigured, k + 1) }

analyzeDocument(clauseList, ruleList, docId, keyConfigured) ==
    analyzeDocumentFrom(clauseList, ruleList, docId, keyConfigured, 1)

\* Variant of firstClauseOr that takes the last of the clauses found.
lastClauseOr(found, fallback) ==
    IF found = <<>> \/ found[Len(found)].clause = <<>> THEN fallback
    ELSE found[Len(found)].clause

\* analyzedClauses.find(test)?.clause || fallback, for the list found of the
\* analysed clauses that pass the test
firstClauseOr(found, fallback) ==
    IF found = <<>> \/ found[1].clause = <<>> THEN fallback ELSE found[1].clause

LatePaymentFee ==
    <<"L","a","t","e"," ","P","a","y","m","e","n","t"," ","F","e","e">>

DueOnReceipt ==
    <<"D","u","e"," ","o","n"," ","r","e","c","e","i","p","t">>

\* The objects extractFinancials resolves to with the key configured: empty
\* arrays (the request to the model failed, or it found nothing), and a JSON
\* answer that names one fee, one payment term and one rate-card item twice.
AiFinancialData ==
    { [ fees |-> <<>>, paymentTerms |-> <<>>, rateCard |-> <<>> ],
      [ fees |-> << [ name |-> LatePaymentFee, amount |-> <<"1",".","5","%">>,
                      category |-> "Payment Terms" ],
                    [ name |-> SetupFee, amount |-> Amount500, category |-> "Initial Fees" ],
                    [ name |-> LatePaymentFee, amount |-> <<"2","%">>,
                      category |-> "Payment Terms" ] >>,
          paymentTerms |-> <<Net30Days, DueOnReceipt, Net30Days>>,
          rateCard |-> << [ item |-> BasicService, rate |-> Rate1000, unit |-> PerMonth ],
                          [ item |-> PremiumSupport, rate |-> Rate150, unit |-> PerHour ],
                          [ item |-> BasicService, rate |-> Rate150, unit |-> PerHour ] >> ] }

\* What the upload handler has in fees, paymentTerms and rateCard after the
\* optional call of extractFinancials.
uploadFinancials(keyConfigured) ==
    IF keyConfigured THEN AiFinancialData
    ELSE { [ fees |-> <<>>, paymentTerms |-> <<Net30Days>>, rateCard |-> <<>> ] }

DefaultRateCard ==
    << [ item |-> BasicService, rate |-> Rate1000, unit |-> PerMonth ],
       [ item |-> PremiumSupport, rate |-> Rate150, unit |-> PerHour ] >>

DefaultFees ==
    << [ name |-> SetupFee, amount |-> Amount500, frequency |-> OneTime,
         category |-> "Initial Fees", description |-> SetupFeeDescription ] >>

\* new Date(t).toISOString().split('T')[0] for a time t within the first day
\* of the epoch
toISODate(t) == IF t < 86400000 THEN EpochDay ELSE <<>>

\* Variant of keyObligationsOf that slices before it filters.
keyObligationsSliceFirst(analyzed) ==
    LET firstThree == SubSeq(analyzed, 1, Min(3, Len(analyzed)))
        obligations ==
            SelectSeq(firstThree,
                      LAMBDA c : c.compliance_status = "Compliant" /\ c.risk_score < 5)
    IN  [k \in 1..Len(obligations) |-> obligations[k].clause]

\* analyzedClauses.filter(c => c.compliance_status === "Compliant" &&
\*                             c.risk_score < 5).slice(0, 3).map(c => c.clause)
keyObligationsOf(analyzed) ==
    LET obligations ==
            SelectSeq(analyzed,
                      LAMBDA c : c.compliance_status = "Compliant" /\ c.risk_score < 5)
    IN  [k \in 1..Min(3, Len(obligations)) |-> obligations[k].clause]

\* list.length > 0 ? list : default
orDefault(list, default) == IF Len(list) > 0 THEN list ELSE default

\* The summary object the upload handler builds.
uploadSummary(fileId, originalname, today, analyzed, financialData) ==
    LET terminationClause ==
            firstClauseOr(SelectSeq(analyzed,
                                    LAMBDA c : c.category = "Termination"
                                               \/ includes(toLowerCase(c.clause), SubTerminat)),
                          DefaultTerminationClause)
        confidentialityClause ==
            firstClauseOr(SelectSeq(analyzed,
                                    LAMBDA c : c.category = "Confidentiality"
                                               \/ includes(toLowerCase(c.clause), SubConfidential)),
                          DefaultConfidentialityClause)
    IN  [ documentId           |-> fileId,
          title                |-> ContractAgreement \o originalname,
          parties              |-> [party1 |-> CompanyA, party2 |-> CompanyB],
          effectiveDate        |-> today,
          termLength           |-> TwelveMonths,
          paymentTerms         |-> financialData.paymentTerms,
          rateCard             |-> IF Len(financialData.rateCard) > 0
                                   THEN financialData.rateCard ELSE DefaultRateCard,
          fees                 |-> orDefault(IF financialData.fees = <<>>
                                             THEN basicFeeExtraction(analyzed)
                                             ELSE financialData.fees, DefaultFees),
          keyObligations       |-> keyObligationsOf(analyzed),
          confidentialityTerms |-> confidentialityClause,
          terminationClauses   |-> <<terminationClause>> ]

Init ==
    /\ apiKey \in BOOLEAN
    /\ IdleAnalyzer
    /\ IdleSegmenter
    /\ IdleDocument
    /\ IdleCall
    /\ clausesTable = {}
    /\ clauseSerial = 1
    /\ complianceRules = InitialRules
    /\ ruleSerial = Len(InitialRules) + 1
    /\ contractSummaries = {}
    /\ now = 1
    /\ requests = [r \in Requests |-> NoRequest]

\* Requests arrive in slot order.
Arrives(r) ==
    /\ requests[r].handler = "none"
    /\ r > 1 => requests[r - 1].handler # "none"

ServerFrame == UNCHANGED <<apiKey, analyzerVars, segmentVars, documentVars, callVars>>

\* An upload with a file is in progress.
UploadInProgress ==
    \E q \in DOMAIN requests : requests[q].handler = "upload" /\ requests[q].pc # "done"

\* POST /api/upload arrives with a file: fileId = Date.now().toString().
\* History: overlapped tells whether another upload with a file was in
\* progress at some time of this one.
StartUpload(r) ==
    /\ Arrives(r)
    /\ \E t \in {now, now + 1} :
         /\ now' = t
         /\ requests' = [q \in DOMAIN requests |->
                IF q = r
                THEN [NoRequest EXCEPT !.handler = "upload", !.pc = "getAllClauses",
                                       !.fileId = t,
                                       !.overlapped = UploadInProgress]
                ELSE IF requests[q].handler \in {"reset", "upload"} /\ requests[q].pc # "done"
                     THEN [requests[q] EXCEPT !.overlapped = TRUE]
                     ELSE requests[q]]
    /\ UNCHANGED storageVars
    /\ ServerFrame

\* POST /api/upload arrives without a file: 400.
UploadWithoutFile(r) ==
    /\ Arrives(r)
    /\ requests' = [requests EXCEPT ![r] = Responded("upload", 0, 400)]
    /\ UNCHANGED <<storageVars, now>>
    /\ ServerFrame

\* upload: existingClauses = await storage.getAllClauses()
UploadGetAllClauses(r) ==
    /\ requests[r].handler = "upload"
    /\ requests[r].pc = "getAllClauses"
    /\ \E existing \in getAllClauses(clausesTable) :
         requests' = [requests EXCEPT
                ![r].existingClauses = existing,
                ![r].pc = IF existing = <<>> THEN "extractClauses" ELSE "deleteClause"]
    /\ UNCHANGED <<storageVars, now>>
    /\ ServerFrame

\* upload: await storage.deleteClause(clause.id) for the next existing clause
UploadDeleteClause(r) ==
    /\ requests[r].handler = "upload"
    /\ requests[r].pc = "deleteClause"
    /\ clausesTable' = deleteClause(clausesTable, Head(requests[r].existingClauses))
    /\ requests' = [requests EXCEPT
            ![r].existingClauses = Tail(@),
            ![r].pc = IF Tail(requests[r].existingClauses) = <<>> THEN "extractClauses"
                      ELSE "deleteClause"]
    /\ UNCHANGED <<clauseSerial, complianceRules, ruleSerial, contractSummaries, now>>
    /\ ServerFrame

\* upload: extractedClauses = await extractClauses(buffer, mimetype)
UploadExtractClausesOf(r, documents) ==
    /\ requests[r].handler = "upload"
    /\ requests[r].pc = "extractClauses"
    /\ \E doc \in documents :
         requests' = [requests EXCEPT ![r].extractedClauses = doc,
                                      ![r].pc = "getAllComplianceRules"]
    /\ UNCHANGED <<storageVars, now>>
    /\ ServerFrame

UploadExtractClauses(r) == UploadExtractClausesOf(r, UploadedDocuments)

\* The first request has been responded to.
FirstResponded == requests[1].pc = "done"

\* The uploads with a file that have arrived.
UploadsArrived ==
    Cardinality({q \in DOMAIN requests : requests[q].handler = "upload"
                                         /\ requests[q].fileId # 0})


\* upload: extractClauses throws; the handler's catch responds 500.
UploadExtractFails(r) ==
    /\ requests[r].handler = "upload"
    /\ requests[r].pc = "extractClauses"
    /\ requests' = [requests EXCEPT
            ![r] = [Responded("upload", requests[r].fileId, 500)
                        EXCEPT !.overlapped = requests[r].overlapped]]
    /\ UNCHANGED <<storageVars, now>>
    /\ ServerFrame

\* Variant of analysisRules that reads the stored rules at the call.
analysisRulesStored(readRules, storedRules) == storedRules

\* The rules argument of the upload's analyzeDocument call: the handler's
\* local rules, not the rows stored at the time of the call.
analysisRules(readRules, storedRules) == readRules

\* upload: rules = await storage.getAllComplianceRules()
UploadGetRules(r) ==
    /\ requests[r].handler = "upload"
    /\ requests[r].pc = "getAllComplianceRules"
    /\ requests' = [requests EXCEPT ![r].rules = complianceRules, ![r].pc = "analyzeDocument"]
    /\ UNCHANGED <<storageVars, now>>
    /\ ServerFrame

\* upload: analyzedClauses = await analyzeDocument(extractedClauses, rules, fileId)
UploadAnalyze(r) ==
    /\ requests[r].handler = "upload"
    /\ requests[r].pc = "analyzeDocument"
    /\ \E analyzed \in analyzeDocument(requests[r].extractedClauses,
                                       analysisRules(requests[r].rules, complianceRules),
                                       requests[r].fileId, apiKey) :
         requests' = [requests EXCEPT
                ![r].analyzedClauses = analyzed,
                ![r].pc = IF analyzed = <<>> THEN "createContractSummary" ELSE "createClause"]
    /\ UNCHANGED <<storageVars, now>>
    /\ ServerFrame

\* upload: await storage.createClause({...clause, completed: false}) for the
\* next analysed clause
UploadCreateClause(r) ==
    /\ requests[r].handler = "upload"
    /\ requests[r].pc = "createClause"
    /\ LET clause == requests[r].analyzedClauses[requests[r].stored + 1]
           clauseWithCompletion ==
               [ clause |-> clause.clause, section |-> clause.section, page |-> clause.page,
                 category |-> clause.category, risk_score |-> clause.risk_score,
                 compliance_status |-> clause.compliance_status,
                 document_id |-> clause.document_id, completed |-> FALSE ]
       IN  clausesTable' = createClause(clausesTable, clauseSerial, clauseWithCompletion)
    /\ clauseSerial' = clauseSerial + 1
    /\ requests' = [requests EXCEPT
            ![r].stored = @ + 1,
            ![r].pc = IF requests[r].stored + 1 = Len(requests[r].analyzedClauses)
                      THEN "createContractSummary" ELSE "createClause"]
    /\ UNCHANGED <<complianceRules, ruleSerial, contractSummaries, now>>
    /\ ServerFrame

\* upload: with the key configured, financialData = await
\* extractFinancials(fullText), which works on local values only; then the
\* summary is built, await storage.createContractSummary(summary); respond 200.
UploadCreateSummary(r) ==
    /\ requests[r].handler = "upload"
    /\ requests[r].pc = "createContractSummary"
    /\ \E financialData \in uploadFinancials(apiKey) :
         contractSummaries' =
            createContractSummary(contractSummaries,
                                  uploadSummary(requests[r].fileId, FileNameMsa, toISODate(now),
                                                requests[r].analyzedClauses, financialData))
    /\ requests' = [requests EXCEPT ![r] = Responded("upload", requests[r].fileId, 200)]
    /\ UNCHANGED <<clausesTable, clauseSerial, complianceRules, ruleSerial, now>>
    /\ ServerFrame

\* DELETE /api/clauses/reset arrives: clauses = await storage.getAllClauses();
\* with no clause it responds at once. History: param is the number of
\* clauses read, stored the number of clauses resident at the response.
ResetGetAllClauses(r) ==
    /\ Arrives(r)
    /\ \E existing \in getAllClauses(clausesTable) :
         LET request == [NoRequest EXCEPT !.handler = "reset", !.pc = "deleteClause",
                                          !.existingClauses = existing,
                                          !.param = Len(existing),
                                          !.overlapped = UploadInProgress]
         IN  requests' = [requests EXCEPT ![r] =
                IF existing = <<>>
                THEN [RespondedKeeping(request, 200) EXCEPT
                         !.stored = Cardinality(clausesTable)]
                ELSE request]
    /\ UNCHANGED <<storageVars, now>>
    /\ ServerFrame

\* reset: await storage.deleteClause(clause.id) for the next clause; after
\* the last one it responds 200.
ResetDeleteClause(r) ==
    /\ requests[r].handler = "reset"
    /\ requests[r].pc = "deleteClause"
    /\ clausesTable' = deleteClause(clausesTable, Head(requests[r].existingClauses))
    /\ requests' = [requests EXCEPT ![r] =
            IF Tail(requests[r].existingClauses) = <<>>
            THEN [RespondedKeeping(requests[r], 200) EXCEPT
                     !.stored = Cardinality(clausesTable')]
            ELSE [requests[r] EXCEPT !.existingClauses = Tail(@)]]
    /\ UNCHANGED <<clauseSerial, complianceRules, ruleSerial, contractSummaries, now>>
    /\ ServerFrame

Next ==
    \E r \in 1..MaxRequests :
        \/ StartUpload(r)
        \/ UploadWithoutFile(r)
        \/ UploadGetAllClauses(r)
        \/ UploadDeleteClause(r)
        \/ UploadExtractClauses(r)
        \/ UploadExtractFails(r)
        \/ UploadGetRules(r)
        \/ UploadAnalyze(r)
        \/ UploadCreateClause(r)
        \/ UploadCreateSummary(r)
        \/ ResetGetAllClauses(r)
        \/ ResetDeleteClause(r)

Spec == Init /\ [][Next]_vars

----------------------------------------------------------------------------
(* basicPaymentTermExtraction called on its own.                           *)

TextInvoiceDue ==
    <<"I","n","v","o","i","c","e","s"," ","a","r","e"," ","d","u","e"," ","w","i","t","h","i",
      "n"," ","1","5"," ","d","a","y","s",".">>

TextLateFeeOnly ==
    <<"A"," ","l","a","t","e"," ","f","e","e"," ","o","f"," ","5","%"," ","a","p","p","l","i",
      "e","s",".">>

TextPayWithin ==
    <<"T","h","e"," ","c","u","s","t","o","m","e","r"," ","s","h","a","l","l"," ","p","a","y",
      " ","w","i","t","h","i","n"," ","4","5"," ","d","a","y","s"," ","o","f"," ","t","h","e",
      " ","d","e","l","i","v","e","r","y"," ","d","a","t","e",","," ","b","y"," ","b","a","n",
      "k"," ","t","r","a","n","s","f","e","r"," ","t","o"," ","t","h","e"," ","a","c","c","o",
      "u","n","t"," ","n","a","m","e","d"," ","o","n"," ","t","h","e"," ","o","r","d","e","r",
      " ","f","o","r","m",".">>

TextNetTwice ==
    <<"S","m","a","l","l"," ","o","r","d","e","r","s"," ","a","r","e"," ","p","a","y","a","b",
      "l","e"," ","n","e","t"," ","1","5"," ","d","a","y","s",";"," ","a","l","l"," ","o","t",
      "h","e","r"," ","o","r","d","e","r","s"," ","N","e","t"," ","3","0"," ","d","a","y","s",
      ","," ","a","n","d"," ","a"," ","l","a","t","e"," ","p","a","y","m","e","n","t"," ","f",
      "e","e"," ","o","f"," ","1",".","5","%"," ","i","s"," ","a","d","d","e","d"," ","a","f",
      "t","e","r"," ","t","h","a","t",".">>

TextLateCharge ==
    <<"A"," ","l","a","t","e"," ","c","h","a","r","g","e"," ","o","f"," ","2"," ","p","e","r",
      "c","e","n","t"," ","i","s"," ","a","d","d","e","d"," ","t","o"," ","e","v","e","r","y",
      " ","o","v","e","r","d","u","e"," ","b","a","l","a","n","c","e"," ","a","t"," ","t","h",
      "e"," ","e","n","d"," ","o","f"," ","e","a","c","h"," ","c","a","l","e","n","d","a","r",
      " ","m","o","n","t","h"," ","u","n","t","i","l"," ","i","t"," ","i","s"," ","s","e","t",
      "t","l","e","d",".">>

TextBankTransfer ==
    <<"P","a","y","m","e","n","t"," ","i","s"," ","m","a","d","e"," ","b","y"," ","b","a","n",
      "k"," ","t","r","a","n","s","f","e","r",".">>

TextNetThirty ==
    <<"A","l","l"," ","a","m","o","u","n","t","s"," ","a","r","e"," ","p","a","y","a","b","l",
      "e"," ","n","e","t"," ","3","0"," ","d","a","y","s"," ","f","r","o","m"," ","t","h","e",
      " ","d","a","t","e"," ","o","f"," ","t","h","e"," ","s","t","a","t","e","m","e","n","t",
      " ","t","h","a","t"," ","t","h","e"," ","s","u","p","p","l","i","e","r"," ","s","e","n",
      "d","s"," ","a","t"," ","t","h","e"," ","e","n","d"," ","o","f"," ","e","a","c","h"," ",
      "m","o","n","t","h",".">>

LatePaymentFee15 ==
    <<"l","a","t","e"," ","p","a","y","m","e","n","t"," ","f","e","e"," ","o","f"," ","1",".",
      "5","%">>

PaymentTermsNet30 ==
    <<"P","a","y","m","e","n","t"," ","t","e","r","m","s",":"," ","N","e","t"," ","3","0"," ",
      "d","a","y","s",".">>

LatePaymentFee15Applies ==
    <<"L","a","t","e"," ","p","a","y","m","e","n","t"," ","f","e","e"," ","o","f"," ","1",".",
      "5","%"," ","a","p","p","l","i","e","s",".">>

PaymentClausePool ==
    { SamplePaymentClause, TextInvoiceDue, TextLateFeeOnly, TextPayWithin, TextNetTwice,
      TextLateCharge, TextBankTransfer, TextNetThirty, TextLiabilityCap }

MaxPaymentClauses == 2

InitPayment ==
    /\ apiKey = FALSE
    /\ IdleAnalyzer
    /\ IdleSegmenter
    /\ IdleDocument
    /\ IdleServer
    /\ callArgument \in UNION {[1..n -> PaymentClausePool] : n \in 0..MaxPaymentClauses}
    /\ callResult = <<>>
    /\ callPc = "ready"
    /\ memContractSummaries = <<>>
    /\ lastCreated = <<>>
    /\ IdleMemClauses

ExtractPaymentTerms ==
    /\ callPc = "ready"
    /\ callResult' = basicPaymentTermExtraction(callArgument)
    /\ callPc' = "returned"
    /\ UNCHANGED <<apiKey, analyzerVars, segmentVars, documentVars, serverVars, callArgument,
                   memContractSummaries, lastCreated, memClauseVars>>

NextPayment == ExtractPaymentTerms

SpecPayment == InitPayment /\ [][NextPayment]_vars

----------------------------------------------------------------------------
(* The incremental extraction requests (extract-fees, extract-costs,       *)
(* extract-payment-terms) on the store an upload has left.                 *)

ProcessingFee ==
    <<"P","r","o","c","e","s","s","i","n","g"," ","F","e","e">>

PerTransaction ==
    <<"p","e","r"," ","t","r","a","n","s","a","c","t","i","o","n">>

ProcessingFeeDescription ==
    <<"F","e","e"," ","f","o","r"," ","p","r","o","c","e","s","s","i","n","g"," ","c","o","n",
      "t","r","a","c","t"," ","t","r","a","n","s","a","c","t","i","o","n","s">>

AdditionalService ==
    <<"A","d","d","i","t","i","o","n","a","l"," ","S","e","r","v","i","c","e">>

Rate75 ==
    <<"$","7","5">>

SamplePaymentTerm ==
    <<"A","l","l"," ","i","n","v","o","i","c","e","s"," ","m","u","s","t"," ","b","e"," ","p",
      "a","i","d"," ","w","i","t","h","i","n"," ","1","5"," ","d","a","y","s"," ","o","f"," ",
      "r","e","c","e","i","p","t"," ","w","i","t","h"," ","a"," ","2","%"," ","e","a","r","l",
      "y"," ","p","a","y","m","e","n","t"," ","d","i","s","c","o","u","n","t",".">>

TextSetupFee ==
    <<"T","h","e"," ","c","l","i","e","n","t"," ","p","a","y","s"," ","a"," ","s","e","t","u",
      "p"," ","f","e","e"," ","o","f"," ","$","5","0","0"," ","p","e","r"," ","y","e","a","r",
      " ","f","o","r"," ","d","a","t","a"," ","s","u","p","p","o","r","t",".">>

ExtractHandlers == {"extract-fees", "extract-costs", "extract-payment-terms"}

\* The array of the summary the handler merges into.
extractField(handlerName) ==
    CASE handlerName = "extract-fees" -> "fees"
      [] handlerName = "extract-costs" -> "rateCard"
      [] OTHER -> "paymentTerms"

\* The key of an entry: fee.name, item.item, the payment term itself.
entryKey(handlerName, entry) ==
    CASE handlerName = "extract-fees" -> entry.name
      [] handlerName = "extract-costs" -> entry.item
      [] OTHER -> entry

\* storage.getClausesByDocumentId: the rows of the document, in any of the
\* orders the SELECT can return them.
getClausesByDocumentId(table, docId) ==
    LET rows == {c \in table : c.document_id = docId}
    IN  { q \in [1..Cardinality(rows) -> rows] :
            \A a, b \in 1..Cardinality(rows) : a # b => q[a] # q[b] }

\* The extraction without AI of each handler.
basicExtraction(handlerName, clauseList) ==
    CASE handlerName = "extract-fees" -> basicFeeExtraction(clauseList)
      [] handlerName = "extract-costs" -> basicRateCardExtraction(clauseList)
      [] OTHER -> basicPaymentTermExtraction([k \in 1..Len(clauseList) |->
                                                 clauseList[k].clause])

\* The entry each handler takes when nothing was extracted.
sampleExtraction(handlerName) ==
    CASE handlerName = "extract-fees" ->
            << [ name |-> ProcessingFee, amount |-> <<"5","%">>, frequency |-> PerTransaction,
                 description |-> ProcessingFeeDescription, category |-> "Service Fees" ] >>
      [] handlerName = "extract-costs" ->
            << [ item |-> AdditionalService, rate |-> Rate75, unit |-> PerHour ] >>
      [] OTHER -> <<SamplePaymentTerm>>

\* if (found.length === 0) found = the sample entry of the handler
orSample(handlerName, found) ==
    IF Len(found) = 0 THEN sampleExtraction(handlerName) ELSE found

\* extractedFees (extractedRateCard, extractedPaymentTerms) after the AI or
\* basic extraction and the sample fallback; financialData is what
\* extractFinancials resolved to, or NoSummary when it was not called.
extractedEntries(handlerName, clauseList, financialData) ==
    orSample(handlerName,
             IF /\ financialData # NoSummary
                /\ Len(financialData[extractField(handlerName)]) > 0
             THEN financialData[extractField(handlerName)]
             ELSE basicExtraction(handlerName, clauseList))

\* for (const entry of extracted) if (!map.has(key)) map.set(key, entry)
RECURSIVE setMissing(_, _, _)
setMissing(map, handlerName, entries) ==
    IF entries = <<>> THEN map
    ELSE LET key == entryKey(handlerName, Head(entries))
         IN  setMissing(IF mapHas(map, key) THEN map ELSE mapSet(map, key, Head(entries)),
                        handlerName, Tail(entries))

\* Variant of mergeEntries that appends every extracted entry.
mergeEntriesAppending(handlerName, existing, extractedList) ==
    IF handlerName = "extract-payment-terms"
    THEN arrayFromSet(existing) \o extractedList
    ELSE mapValues(newMap([k \in 1..Len(existing) |->
                              <<entryKey(handlerName, existing[k]), existing[k]>>]))
         \o extractedList

\* Variant of mergeEntries that puts the extracted entries first.
mergeEntriesExtractedFirst(handlerName, existing, extractedList) ==
    IF handlerName = "extract-payment-terms"
    THEN arrayFromSet(extractedList \o existing)
    ELSE mapValues(setMissing(newMap([k \in 1..Len(extractedList) |->
                                         <<entryKey(handlerName, extractedList[k]),
                                           extractedList[k]>>]),
                              handlerName, existing))

\* The merged array: a Map keyed by name (item) built from the existing
\* entries and completed with the extracted ones; for payment terms a Set
\* built from the existing terms to which every extracted term is added.
mergeEntries(handlerName, existing, extractedList) ==
    IF handlerName = "extract-payment-terms"
    THEN arrayFromSet(existing \o extractedList)
    ELSE mapValues(setMissing(newMap([k \in 1..Len(existing) |->
                                         <<entryKey(handlerName, existing[k]), existing[k]>>]),
                              handlerName, extractedList))

\* summary.fees || [] (likewise rateCard, paymentTerms)
arrayOrEmpty(summary, field) == IF field \in DOMAIN summary THEN summary[field] ELSE <<>>

\* updatedSummary = {...summary, [field]: merged}
updatedSummaryOf(handlerName, summary, extractedList) ==
    LET field == extractField(handlerName)
        merged == mergeEntries(handlerName, arrayOrEmpty(summary, field), extractedList)
    IN  [f \in DOMAIN summary \cup {field} |-> IF f = field THEN merged ELSE summary[f]]

\* The documents whose upload precedes the extraction requests.
ExtractionDocuments == { <<SamplePaymentClause>>, <<TextSetupFee, SamplePaymentClause>> }

\* The empty store; the first request is an upload, and the extraction
\* requests arrive after its response.
InitExtraction == Init

\* POST /api/extract-.../:documentId arrives:
\* summary = await storage.getContractSummary(documentId); 404 without one.
ExtractGetSummary(r, handlerName, docId) ==
    /\ Arrives(r)
    /\ LET summary == getContractSummary(contractSummaries, docId)
           request == [NoRequest EXCEPT !.handler = handlerName, !.param = docId,
                                        !.summary = summary, !.pc = "getClausesByDocumentId"]
       IN  requests' = [requests EXCEPT ![r] =
                IF summary = NoSummary THEN RespondedKeeping(request, 404) ELSE request]
    /\ UNCHANGED <<storageVars, now>>
    /\ ServerFrame

\* Variant of noClauses that takes every result for clauses.
noClausesNever(clauseList) == FALSE

\* !clauses || clauses.length === 0
noClauses(clauseList) == clauseList = <<>>

\* clauses = await storage.getClausesByDocumentId(documentId); 404 without
\* clauses. Without the key the handler extracts right away and goes on to
\* its write.
ExtractGetClauses(r) ==
    /\ requests[r].handler \in ExtractHandlers
    /\ requests[r].pc = "getClausesByDocumentId"
    /\ \E found \in getClausesByDocumentId(clausesTable, requests[r].param) :
         requests' = [requests EXCEPT ![r] =
            IF noClauses(found) THEN RespondedKeeping(requests[r], 404)
            ELSE IF apiKey
                 THEN [requests[r] EXCEPT !.clauses = found, !.pc = "extractFinancials"]
                 ELSE [requests[r] EXCEPT
                          !.clauses = found,
                          !.extracted = extractedEntries(requests[r].handler, found, NoSummary),
                          !.pc = "updateContractSummary"]]
    /\ UNCHANGED <<storageVars, now>>
    /\ ServerFrame

\* With the key: financialData = await extractFinancials(fullText)
ExtractFinancials(r) ==
    /\ requests[r].handler \in ExtractHandlers
    /\ requests[r].pc = "extractFinancials"
    /\ \E financialData \in AiFinancialData :
         requests' = [requests EXCEPT
            ![r].extracted = extractedEntries(requests[r].handler, requests[r].clauses,
                                              financialData),
            ![r].pc = "updateContractSummary"]
    /\ UNCHANGED <<storageVars, now>>
    /\ ServerFrame

\* await storage.updateContractSummary(documentId, updatedSummary); respond.
ExtractUpdateSummary(r) ==
    /\ requests[r].handler \in ExtractHandlers
    /\ requests[r].pc = "updateContractSummary"
    /\ contractSummaries' =
          updateContractSummary(contractSummaries, requests[r].param,
                                updatedSummaryOf(requests[r].handler, requests[r].summary,
                                                 requests[r].extracted))
    /\ requests' = [requests EXCEPT ![r] =
          RespondedKeeping([requests[r] EXCEPT
                               !.written = getContractSummary(contractSummaries',
                                                              requests[r].param)], 200)]
    /\ UNCHANGED <<clausesTable, clauseSerial, complianceRules, ruleSerial, now>>
    /\ ServerFrame

NextExtraction ==
    \E r \in 1..MaxExtractRequests :
        \/ r = 1 /\ StartUpload(r)
        \/ r = 1 /\ UploadWithoutFile(r)
        \/ UploadGetAllClauses(r)
        \/ UploadExtractClausesOf(r, ExtractionDocuments)
        \/ UploadExtractFails(r)
        \/ UploadGetRules(r)
        \/ UploadAnalyze(r)
        \/ UploadCreateClause(r)
        \/ UploadCreateSummary(r)
        \/ \E handlerName \in ExtractHandlers, docId \in {1, 2} :
              FirstResponded /\ ExtractGetSummary(r, handlerName, docId)
        \/ ExtractGetClauses(r)
        \/ ExtractFinancials(r)
        \/ ExtractUpdateSummary(r)
        \/ FirstResponded /\ ResetGetAllClauses(r)
        \/ ResetDeleteClause(r)

SpecExtraction == InitExtraction /\ [][NextExtraction]_vars

----------------------------------------------------------------------------
(* Mark-complete, reset and upload requests after a first upload.           *)

\* storage.getClause: the rows selected by id (at most one).
getClause(table, id) == {c \in table : c.id = id}

\* Variant of completedClause that flips completed.
completedClauseToggled(existingClause) == [existingClause EXCEPT !.completed = ~@]

\* updatedClause = {...existingClause, completed: true}
completedClause(existingClause) == [existingClause EXCEPT !.completed = TRUE]

\* Variant of updateClause that inserts the clause when no row has the id.
updateClauseOrInsert(table, id, clause) ==
    IF \E c \in table : c.id = id
    THEN {IF c.id = id
          THEN [f \in DOMAIN c |-> IF f \in DOMAIN clause THEN clause[f] ELSE c[f]]
          ELSE c : c \in table}
    ELSE table \cup {clause}

\* The UPDATE of DatabaseStorage.updateClause: SET the given columns WHERE id.
updateClause(table, id, clause) ==
    {IF c.id = id THEN [f \in DOMAIN c |-> IF f \in DOMAIN clause THEN clause[f] ELSE c[f]]
     ELSE c : c \in table}

\* The ids in the URLs of the mark-complete requests.
MarkedClauseIds == {1, 2, 3}

\* The empty store, without the key; the first request is an upload, and the
\* other requests arrive after its response.
InitReview == Init /\ apiKey = FALSE

\* POST /api/clauses/:id/complete arrives with an id that is not a number: 400.
MarkInvalidId(r) ==
    /\ Arrives(r)
    /\ requests' = [requests EXCEPT ![r] =
            RespondedKeeping([NoRequest EXCEPT !.handler = "mark-complete"], 400)]
    /\ UNCHANGED <<storageVars, now>>
    /\ ServerFrame

\* POST /api/clauses/:id/complete arrives:
\* existingClause = await storage.getClause(clauseId); 404 without one.
MarkGetClause(r, id) ==
    /\ Arrives(r)
    /\ LET found == getClause(clausesTable, id)
           request == [NoRequest EXCEPT !.handler = "mark-complete", !.param = id]
       IN  requests' = [requests EXCEPT ![r] =
                IF found = {} THEN RespondedKeeping(request, 404)
                ELSE [request EXCEPT !.clauses = <<CHOOSE c \in found : TRUE>>,
                                     !.pc = "updateClause"]]
    /\ UNCHANGED <<storageVars, now>>
    /\ ServerFrame

\* storage.updateClause, its SELECT by id: without a row it returns
\* undefined, and the handler responds 200 all the same.
MarkSelectClause(r) ==
    /\ requests[r].handler = "mark-complete"
    /\ requests[r].pc = "updateClause"
    /\ requests' = [requests EXCEPT ![r] =
            IF getClause(clausesTable, requests[r].param) = {}
            THEN RespondedKeeping(requests[r], 200)
            ELSE [requests[r] EXCEPT !.pc = "updateClauseSet"]]
    /\ UNCHANGED <<storageVars, now>>
    /\ ServerFrame

\* storage.updateClause, its UPDATE with updatedClause; respond 200.
\* History: stored is the number of rows the UPDATE returned.
MarkUpdateClause(r) ==
    /\ requests[r].handler = "mark-complete"
    /\ requests[r].pc = "updateClauseSet"
    /\ clausesTable' = updateClause(clausesTable, requests[r].param,
                                    completedClause(requests[r].clauses[1]))
    /\ requests' = [requests EXCEPT ![r] =
            [RespondedKeeping(requests[r], 200) EXCEPT
                !.stored = Cardinality(getClause(clausesTable, requests[r].param))]]
    /\ UNCHANGED <<clauseSerial, complianceRules, ruleSerial, contractSummaries, now>>
    /\ ServerFrame

NextReview ==
    \E r \in 1..MaxReviewRequests :
        \/ (r = 1 \/ FirstResponded) /\ UploadsArrived < MaxReviewUploads /\ StartUpload(r)
        \/ UploadWithoutFile(r)
        \/ UploadGetAllClauses(r)
        \/ UploadDeleteClause(r)
        \/ UploadExtractClauses(r)
        \/ UploadExtractFails(r)
        \/ UploadGetRules(r)
        \/ UploadAnalyze(r)
        \/ UploadCreateClause(r)
        \/ UploadCreateSummary(r)
        \/ FirstResponded /\ ResetGetAllClauses(r)
        \/ ResetDeleteClause(r)
        \/ FirstResponded /\ MarkInvalidId(r)
        \/ \E id \in MarkedClauseIds : FirstResponded /\ MarkGetClause(r, id)
        \/ MarkSelectClause(r)
        \/ MarkUpdateClause(r)

SpecReview == InitReview /\ [][NextReview]_vars

----------------------------------------------------------------------------
(* Compliance-rule requests and an upload after a first upload.             *)

\* The validated bodies of the rule requests: the liability rule allowed,
\* and a rule with the empty keyword and no allowed field.
RuleBodies == { [keyword |-> KwLiabilityClause, allowed |-> TRUE], [keyword |-> <<>>] }

\* The ids in the URLs of the rule requests.
RuleIds == {2, 4}

\* DatabaseStorage.createComplianceRule: allowed defaults to true.
createComplianceRule(ruleList, serial, rule) ==
    Append(ruleList, [ id |-> serial, keyword |-> rule.keyword,
                       allowed |-> IF "allowed" \in DOMAIN rule THEN rule.allowed ELSE TRUE ])

\* The UPDATE of DatabaseStorage.updateComplianceRule: allowed defaults to
\* the value of the row read before.
updateComplianceRule(ruleList, id, rule, existingRule) ==
    [k \in 1..Len(ruleList) |->
        IF ruleList[k].id = id
        THEN [ id |-> id, keyword |-> rule.keyword,
               allowed |-> IF "allowed" \in DOMAIN rule THEN rule.allowed
                           ELSE existingRule.allowed ]
        ELSE ruleList[k]]

\* DatabaseStorage.deleteComplianceRule
deleteComplianceRule(ruleList, id) == SelectSeq(ruleList, LAMBDA rule : rule.id # id)

InitRules == Init /\ apiKey = FALSE

\* POST or PUT /api/compliance-rules arrives with an invalid body: 400.
RuleInvalidBody(r) ==
    /\ Arrives(r)
    /\ requests' = [requests EXCEPT ![r] =
            RespondedKeeping([NoRequest EXCEPT !.handler = "rule"], 400)]
    /\ UNCHANGED <<storageVars, now>>
    /\ ServerFrame

\* POST /api/compliance-rules arrives:
\* await storage.createComplianceRule(body); 201.
RuleCreate(r, body) ==
    /\ Arrives(r)
    /\ complianceRules' = createComplianceRule(complianceRules, ruleSerial, body)
    /\ ruleSerial' = ruleSerial + 1
    /\ requests' = [requests EXCEPT ![r] =
            RespondedKeeping([NoRequest EXCEPT !.handler = "rule-create",
                                               !.param = ruleSerial], 201)]
    /\ UNCHANGED <<clausesTable, clauseSerial, contractSummaries, now>>
    /\ ServerFrame

\* PUT /api/compliance-rules/:id arrives: storage.updateComplianceRule, its
\* SELECT by id; 404 without a row. The local rules holds existingRule, the
\* local extracted the body.
RuleUpdateSelect(r, id, body) ==
    /\ Arrives(r)
    /\ LET found == SelectSeq(complianceRules, LAMBDA rule : rule.id = id)
           request == [NoRequest EXCEPT !.handler = "rule-update", !.param = id]
       IN  requests' = [requests EXCEPT ![r] =
                IF found = <<>> THEN RespondedKeeping(request, 404)
                ELSE [request EXCEPT !.rules = <<found[1]>>, !.extracted = <<body>>,
                                     !.pc = "updateComplianceRule"]]
    /\ UNCHANGED <<storageVars, now>>
    /\ ServerFrame

\* storage.updateComplianceRule, its UPDATE; 404 when the row is gone.
RuleUpdateSet(r) ==
    /\ requests[r].handler = "rule-update"
    /\ requests[r].pc = "updateComplianceRule"
    /\ complianceRules' = updateComplianceRule(complianceRules, requests[r].param,
                                               requests[r].extracted[1], requests[r].rules[1])
    /\ requests' = [requests EXCEPT ![r] =
            RespondedKeeping(requests[r],
                             IF \E k \in 1..Len(complianceRules) :
                                   complianceRules[k].id = requests[r].param
                             THEN 200 ELSE 404)]
    /\ UNCHANGED <<clausesTable, clauseSerial, ruleSerial, contractSummaries, now>>
    /\ ServerFrame

\* DELETE /api/compliance-rules/:id arrives:
\* await storage.deleteComplianceRule(id), which returns true; 200.
RuleDelete(r, id) ==
    /\ Arrives(r)
    /\ complianceRules' = deleteComplianceRule(complianceRules, id)
    /\ requests' = [requests EXCEPT ![r] =
            RespondedKeeping([NoRequest EXCEPT !.handler = "rule-delete", !.param = id], 200)]
    /\ UNCHANGED <<clausesTable, clauseSerial, ruleSerial, contractSummaries, now>>
    /\ ServerFrame

NextRules ==
    \E r \in 1..MaxRuleRequests :
        \/ (r = 1 \/ FirstResponded) /\ UploadsArrived < MaxRuleUploads /\ StartUpload(r)
        \/ UploadWithoutFile(r)
        \/ UploadGetAllClauses(r)
        \/ UploadDeleteClause(r)
        \/ UploadExtractClauses(r)
        \/ UploadExtractFails(r)
        \/ UploadGetRules(r)
        \/ UploadAnalyze(r)
        \/ UploadCreateClause(r)
        \/ UploadCreateSummary(r)
        \/ FirstResponded /\ RuleInvalidBody(r)
        \/ \E body \in RuleBodies : FirstResponded /\ RuleCreate(r, body)
        \/ \E id \in RuleIds, body \in RuleBodies :
              FirstResponded /\ RuleUpdateSelect(r, id, body)
        \/ RuleUpdateSet(r)
        \/ \E id \in RuleIds : FirstResponded /\ RuleDelete(r, id)

SpecRules == InitRules /\ [][NextRules]_vars

----------------------------------------------------------------------------
(* The contract-summary operations of both storage implementations, called *)
(* on their own.                                                           *)

StoreDocumentIds == {1, 2}

StorageKinds == {"DatabaseStorage", "MemStorage"}

\* The summaries written for document 1: one with documentId only, the one
\* an upload builds for a document without clauses, and one with an empty
\* title, an empty fees array and arrays in another order; for document 2:
\* the one an upload builds.
StoredSummaryPool ==
    { [ documentId |-> 1 ],
      uploadSummary(1, FileNameMsa, EpochDay, <<>>,
                    [ fees |-> <<>>, paymentTerms |-> <<Net30Days>>, rateCard |-> <<>> ]),
      [ documentId |-> 1, title |-> <<>>,
        paymentTerms |-> <<DueOnReceipt, Net30Days, DueOnReceipt>>,
        fees |-> <<>>,
        rateCard |-> <<DefaultRateCard[2], DefaultRateCard[1]>>,
        keyObligations |-> <<TextLiabilityCap, TextIpOwner>>,
        terminationClauses |-> <<>> ],
      uploadSummary(2, FileNameMsa, EpochDay, <<>>,
                    [ fees |-> <<>>, paymentTerms |-> <<Net30Days>>, rateCard |-> <<>> ]) }

\* getContractSummary of the storage implementation kind.
storedSummary(kind, docId) ==
    IF kind = "DatabaseStorage" THEN getContractSummary(contractSummaries, docId)
    ELSE memGetContractSummary(memContractSummaries, docId)

InitStore ==
    /\ apiKey = FALSE
    /\ IdleAnalyzer
    /\ IdleSegmenter
    /\ IdleDocument
    /\ IdleServer
    /\ callArgument = [ op |-> "none", storage |-> "none", documentId |-> 0,
                        summary |-> NoSummary, before |-> NoSummary ]
    /\ callResult = NoSummary
    /\ callPc = "ready"
    /\ memContractSummaries = <<>>
    /\ lastCreated = [key \in StorageKinds \X StoreDocumentIds |-> NoSummary]
    /\ IdleMemClauses

StoreFrame ==
    UNCHANGED <<apiKey, analyzerVars, segmentVars, documentVars, clausesTable, clauseSerial,
                complianceRules, ruleSerial, now, requests, memClauseVars>>

\* storage.createContractSummary(summary)
CreateContractSummary(kind, summary) ==
    /\ callPc # "idle"
    /\ callArgument' = [ op |-> "createContractSummary", storage |-> kind,
                         documentId |-> summary.documentId, summary |-> summary,
                         before |-> storedSummary(kind, summary.documentId) ]
    /\ IF kind = "DatabaseStorage"
       THEN /\ contractSummaries' = createContractSummary(contractSummaries, summary)
            /\ UNCHANGED memContractSummaries
       ELSE /\ memContractSummaries' = memCreateContractSummary(memContractSummaries, summary)
            /\ UNCHANGED contractSummaries
    /\ callResult' = summary
    /\ callPc' = "returned"
    /\ lastCreated' = [lastCreated EXCEPT ![<<kind, summary.documentId>>] = summary]
    /\ StoreFrame

\* storage.getContractSummary(documentId)
GetContractSummary(kind, docId) ==
    /\ callPc # "idle"
    /\ callArgument' = [ op |-> "getContractSummary", storage |-> kind, documentId |-> docId,
                         summary |-> NoSummary, before |-> storedSummary(kind, docId) ]
    /\ callResult' = storedSummary(kind, docId)
    /\ callPc' = "returned"
    /\ UNCHANGED <<contractSummaries, memContractSummaries, lastCreated>>
    /\ StoreFrame

\* storage.updateContractSummary(documentId, summary), called as the routes
\* call it: with a summary of that documentId
UpdateContractSummary(kind, summary) ==
    /\ callPc # "idle"
    /\ callArgument' = [ op |-> "updateContractSummary", storage |-> kind,
                         documentId |-> summary.documentId, summary |-> summary,
                         before |-> storedSummary(kind, summary.documentId) ]
    /\ IF kind = "DatabaseStorage"
       THEN /\ contractSummaries' =
                  updateContractSummary(contractSummaries, summary.documentId, summary)
            /\ UNCHANGED memContractSummaries
       ELSE /\ memContractSummaries' =
                  memUpdateContractSummary(memContractSummaries, summary.documentId, summary)
            /\ UNCHANGED contractSummaries
    /\ callResult' = IF storedSummary(kind, summary.documentId) = NoSummary THEN NoSummary
                     ELSE summary
    /\ callPc' = "returned"
    /\ lastCreated' = [lastCreated EXCEPT ![<<kind, summary.documentId>>] = NoSummary]
    /\ StoreFrame

NextStore ==
    \E kind \in StorageKinds :
        \/ \E summary \in StoredSummaryPool : CreateContractSummary(kind, summary)
        \/ \E docId \in StoreDocumentIds : GetContractSummary(kind, docId)
        \/ \E summary \in StoredSummaryPool : UpdateContractSummary(kind, summary)

SpecStore == InitStore /\ [][NextStore]_vars

----------------------------------------------------------------------------
(* The summary construction of the upload handler, on its own, for         *)
(* analysed clause lists longer than the ones the modelled uploads have.   *)

\* Largest list of analysed clauses a summary is built from.
MaxAnalyzed == 5

\* An analysed clause of document 1.
analyzedRecord(clause, status, risk) ==
    [ clause |-> clause, section |-> "1.1", page |-> 1, category |-> "Liability",
      risk_score |-> risk, compliance_status |-> status, document_id |-> 1 ]

AnalyzedPool ==
    { analyzedRecord(TextLiabilityCap, "Compliant", 3),
      analyzedRecord(TextIpOwner, "Compliant", 4),
      analyzedRecord(TextIpOwner, "Compliant", 5),
      analyzedRecord(TextLiabilityCap, "Non-Compliant", 2),
      analyzedRecord(TextLiabilityCap, "Review Needed", 5) }

InitObligations ==
    /\ apiKey = FALSE
    /\ IdleAnalyzer
    /\ IdleSegmenter
    /\ IdleDocument
    /\ IdleServer
    /\ callArgument \in UNION {[1..n -> AnalyzedPool] : n \in 0..MaxAnalyzed}
    /\ callResult = NoSummary
    /\ callPc = "ready"
    /\ memContractSummaries = <<>>
    /\ lastCreated = <<>>
    /\ IdleMemClauses

\* The upload handler builds the summary from analyzedClauses.
BuildSummary ==
    /\ callPc = "ready"
    /\ \E financialData \in uploadFinancials(apiKey) :
         callResult' = uploadSummary(1, FileNameMsa, EpochDay, callArgument, financialData)
    /\ callPc' = "returned"
    /\ UNCHANGED <<apiKey, analyzerVars, segmentVars, documentVars, serverVars, callArgument,
                   memContractSummaries, lastCreated, memClauseVars>>

NextObligations == BuildSummary

SpecObligations == InitObligations /\ [][NextObligations]_vars

----------------------------------------------------------------------------
(* The summary construction of the upload handler on analysed clauses of   *)
(* several categories, among them a clause with an empty text, which the   *)
(* AI segmentation can return.                                             *)

TextConfidential ==
    <<"C","o","n","f","i","d","e","n","t","i","a","l"," ","d","a","t","a"," ","s","t","a","y",
      "s"," ","s","e","c","r","e","t",".">>

\* Largest list of analysed clauses of this summary construction.
MaxKeyClauses == 3

AnalyzedCategoryPool ==
    { [analyzedRecord(TextLiabilityCap, "Compliant", 3) EXCEPT !.category = "Liability"],
      [analyzedRecord(TextIpSurvive, "Compliant", 3) EXCEPT !.category = "IP Rights"],
      [analyzedRecord(TextPlain, "Compliant", 3) EXCEPT !.category = "Termination"],
      [analyzedRecord(<<>>, "Compliant", 3) EXCEPT !.category = "Termination"],
      [analyzedRecord(TextConfidential, "Compliant", 3) EXCEPT !.category = "Liability"],
      [analyzedRecord(TextPlain, "Compliant", 3) EXCEPT !.category = "Confidentiality"],
      [analyzedRecord(<<>>, "Compliant", 3) EXCEPT !.category = "Confidentiality"] }

\* Without the key the clauses come from splitTextIntoClauses, which returns
\* no empty clause.
InitKeyClauses ==
    /\ apiKey \in BOOLEAN
    /\ IdleAnalyzer
    /\ IdleSegmenter
    /\ IdleDocument
    /\ IdleServer
    /\ callArgument \in UNION {[1..n -> AnalyzedCategoryPool] : n \in 0..MaxKeyClauses}
    /\ apiKey \/ \A k \in DOMAIN callArgument : callArgument[k].clause # <<>>
    /\ callResult = NoSummary
    /\ callPc = "ready"
    /\ memContractSummaries = <<>>
    /\ lastCreated = <<>>
    /\ IdleMemClauses

NextKeyClauses == BuildSummary

SpecKeyClauses == InitKeyClauses /\ [][NextKeyClauses]_vars

----------------------------------------------------------------------------
(* Properties of the heuristic analysis.                                   *)

Range(seq) == {seq[k] : k \in DOMAIN seq}

\* The keyword, case folded, occurs as a contiguous piece of the case-folded
\* clause text.
KeywordOccurs(clause, keyword) ==
    LET t == toLowerCase(clause)
        w == toLowerCase(keyword)
    IN  \E start \in 1..(Len(t) + 1) :
            /\ start + Len(w) - 1 <= Len(t)
            /\ SubSeq(t, start, start + Len(w) - 1) = w

\* C1: the risk score the heuristic analysis returns lies in the band of the
\* compliance status of the same result: Non-Compliant 7..9, Review Needed
\* 4..6, Compliant 0..3.
RiskInStatusBand ==
    analysisPc = "returned" =>
        /\ analysis.compliance_status = "Non-Compliant" => analysis.risk_score \in 7..9
        /\ analysis.compliance_status = "Review Needed" => analysis.risk_score \in 4..6
        /\ analysis.compliance_status = "Compliant"     => analysis.risk_score \in 0..3
        /\ analysis.compliance_status \in {"Non-Compliant", "Review Needed", "Compliant"}

\* A Review Needed result whose risk was raised to the bottom of its band.
WitnessRiskBand ==
    /\ analysisPc = "returned"
    /\ analysis.compliance_status = "Review Needed"
    /\ analysis.risk_score = 4

\* C5: the status is Non-Compliant exactly when a matching rule is
\* disallowed; Compliant when no rule matches; Compliant or Review Needed,
\* both possible, when rules match and none of them is disallowed.
StatusFollowsMatches ==
    analysisPc = "returned" =>
        LET matching == {r \in Range(rules) : KeywordOccurs(clauseText, r.keyword)}
            violated == {r \in matching : ~r.allowed}
        IN  /\ (analysis.compliance_status = "Non-Compliant") <=> (violated # {})
            /\ matching = {} => analysis.compliance_status = "Compliant"
            /\ (matching # {} /\ violated = {}) =>
                 /\ analysis.compliance_status \in {"Compliant", "Review Needed"}
                 /\ {complianceStatusOf(matches, coin) : coin \in CoinDraws}
                      = {"Compliant", "Review Needed"}

\* Only allowed rules match and the coin gave Review Needed.
WitnessReviewNeeded ==
    /\ analysisPc = "returned"
    /\ Len(matches) > 0
    /\ \A k \in DOMAIN matches : matches[k].rule.allowed
    /\ analysis.compliance_status = "Review Needed"

\* The rule list reordered by the permutation p of its indexes.
Permuted(ruleList, p) == [k \in DOMAIN ruleList |-> ruleList[p[k]]]

\* The statuses the heuristic can give for a matches array.
StatusClass(matchList) == {complianceStatusOf(matchList, coin) : coin \in CoinDraws}

\* C6: the set of matched rules, and with it the status class, is the same
\* for every permutation of the rule list.
MatchingIsOrderIndependent ==
    analysisPc = "returned" =>
        \A p \in Permutations(DOMAIN rules) :
            LET other == ruleMatches(clauseText, Permuted(rules, p))
            IN  /\ Range(other) = Range(matches)
                /\ StatusClass(other) = StatusClass(matches)

\* Two rules match, an allowed one listed before a disallowed one.
WitnessTwoMatchesMixed ==
    /\ analysisPc = "returned"
    /\ Len(matches) >= 2
    /\ matches[1].rule.allowed
    /\ \E k \in DOMAIN matches : ~matches[k].rule.allowed

\* C7: the matches array has one entry, in rule order, for every rule whose
\* case-folded keyword occurs in the case-folded clause and none for any other
\* rule; each entry's isViolation is the negation of the rule's allowed flag.
MatcherIsExact ==
    analysisPc = "returned" =>
        LET hits == SelectSeq(rules, LAMBDA r : KeywordOccurs(clauseText, r.keyword))
        IN  /\ Len(matches) = Len(hits)
            /\ \A k \in DOMAIN matches :
                 /\ matches[k].rule = hits[k]
                 /\ matches[k].isViolation = ~hits[k].allowed

\* A rule whose keyword differs from the clause in letter case matches, and
\* so does a second rule after it.
WitnessCaseFoldedMatches ==
    /\ analysisPc = "returned"
    /\ clauseText = TextLiabilityCap
    /\ Len(matches) >= 2
    /\ \E k \in DOMAIN matches : matches[k].rule.keyword = KwLiabilityClause

----------------------------------------------------------------------------
(* Properties of the segmentation.                                         *)

\* C9 as stated: a text whose trimmed length exceeds 50 characters gives at
\* least one clause on the heuristic path.
LongTextGivesClause ==
    ( /\ segmentPc = "returned"
      /\ extractedBy = "basic"
      /\ Len(trim(text)) > MinClauseLength ) => Len(extracted) >= 1

\* C9 amended: the heuristic path returns at least one clause exactly when a
\* paragraph (piece between blank lines) has a trimmed length over 50 or a
\* sentence (piece between full stops followed by white space) is longer than
\* 50 characters; every clause returned is such a piece.
LongPieceGivesClause ==
    ( segmentPc = "returned" /\ extractedBy = "basic" ) =>
        LET paragraphs == Range(split(text, "blankLine"))
            sentences  == Range(split(text, "sentence"))
            longParagraphs == {para \in paragraphs : Len(trim(para)) > MinClauseLength}
            longSentences  == {sent \in sentences : Len(sent) > MinClauseLength}
        IN  /\ (Len(extracted) >= 1) <=> (longParagraphs # {} \/ longSentences # {})
            /\ longParagraphs # {} => Range(extracted) = longParagraphs
            /\ longParagraphs = {} => Range(extracted) = longSentences

\* No paragraph is long enough, and the sentence split gives the clause.
WitnessSentenceFallback ==
    /\ segmentPc = "returned"
    /\ extractedBy = "basic"
    /\ Len(trim(text)) > MinClauseLength
    /\ \A para \in Range(split(text, "blankLine")) : Len(trim(para)) <= MinClauseLength
    /\ Len(extracted) >= 1

\* C10: when the key is configured and the segmentation request fails or
\* yields no clause, extractClauses returns the clause list of
\* splitTextIntoClauses for the same text.
AiFailureGivesHeuristicClauses ==
    ( /\ segmentPc = "returned"
      /\ apiKey
      /\ aiOutcome \in {"error", "empty", "malformed", "noClauses"} ) =>
        extracted = splitTextIntoClauses(text)

----------------------------------------------------------------------------
(* Properties of analyzeDocument.                                          *)

\* C3: with the key configured, a clause whose request to the model failed is
\* recorded with a result of the heuristic analysis of that clause and rule
\* list (status from rule matching, risk in the status band, category from the
\* keyword tests).
FailedRequestGivesHeuristicResult ==
    \A k \in DOMAIN analyzedClauses :
        (apiKey /\ aiFailed[k]) =>
            \E r \in basicClauseAnalysisResults(clauses[k], rules, analyzedClauses[k].section) :
                /\ analyzedClauses[k].compliance_status = r.compliance_status
                /\ analyzedClauses[k].risk_score = r.risk_score
                /\ analyzedClauses[k].category = r.category

\* C4: analyzeDocument returns one record per input clause, in input order,
\* each with the input's clause text and the documentId argument, whichever
\* requests to the model fail.
OneRecordPerClauseInOrder ==
    /\ documentPc \in {"loop", "delay", "returned"} =>
         /\ Len(analyzedClauses) = i
         /\ i <= Len(clauses)
         /\ \A k \in DOMAIN analyzedClauses :
              /\ analyzedClauses[k].clause = clauses[k]
              /\ analyzedClauses[k].document_id = documentId
    /\ documentPc = "returned" => Len(analyzedClauses) = Len(clauses)

\* A document of six clauses returned, after the batch delay, with a failed
\* request followed by an answered one.
WitnessMixedFailures ==
    /\ documentPc = "returned"
    /\ Len(clauses) = 6
    /\ delayedAfter = {4}
    /\ aiFailed[1] /\ ~aiFailed[2]

----------------------------------------------------------------------------
(* Properties of the request handlers.                                     *)

\* No upload is between its arrival and its response.
NoUploadInProgress ==
    \A r \in Requests : requests[r].handler = "upload" => requests[r].pc = "done"

\* C2: whenever no upload is in progress, all clauses in the store carry one
\* and the same document_id.
OneDocumentResident ==
    NoUploadInProgress =>
        \A a, b \in clausesTable : a.document_id = b.document_id

----------------------------------------------------------------------------
(* Properties of the payment term extraction.                              *)

PaymentTermsNet15 ==
    <<"P","a","y","m","e","n","t"," ","t","e","r","m","s",":"," ","N","e","t"," ","1","5"," ",
      "d","a","y","s",".">>

PaymentDueWithin45 ==
    <<"P","a","y","m","e","n","t"," ","d","u","e"," ","w","i","t","h","i","n"," ","4","5"," ",
      "d","a","y","s",".">>

LatePaymentFee2Percent ==
    <<"L","a","t","e"," ","p","a","y","m","e","n","t"," ","f","e","e"," ","o","f"," ","2"," ",
      "p","e","r","c","e","n","t"," ","a","p","p","l","i","e","s",".">>

MatchesPaymentPattern(clause) ==
    LET lower == toLowerCase(clause)
    IN  \/ match(lower, netDaysPattern).found
        \/ match(lower, payWithinPattern).found
        \/ match(lower, duePattern).found
        \/ match(lower, lateFeePattern).found

StartsWith(s, prefix) == Len(prefix) <= Len(s) /\ SubSeq(s, 1, Len(prefix)) = prefix

EndsWith(s, suffix) ==
    Len(suffix) <= Len(s) /\ SubSeq(s, Len(s) - Len(suffix) + 1, Len(s)) = suffix

IsNormalizedSentence(term) ==
    \/ StartsWith(term, PaymentTermsNet) /\ EndsWith(term, DaysStop)
    \/ StartsWith(term, PaymentDueWithin) /\ EndsWith(term, DaysStop)
    \/ StartsWith(term, LatePaymentFeeOf) /\ EndsWith(term, Applies)

\* C20 as stated: a clause longer than 100 characters that contains "Net 30
\* days" and "late payment fee of 1.5%" gives a non-empty result containing
\* "Payment terms: Net 30 days." or "Late payment fee of 1.5% applies."; a
\* clause matching a payment pattern is returned verbatim when it has at most
\* 100 characters and otherwise yields one normalized sentence; the result has
\* no duplicates.
PaymentPatternClauseIsReturned ==
    callPc = "returned" =>
        /\ \A clause \in Range(callArgument) :
              Len(clause) > 100 /\ includes(clause, Net30Days)
              /\ includes(clause, LatePaymentFee15)
              => \/ PaymentTermsNet30 \in Range(callResult)
                 \/ LatePaymentFee15Applies \in Range(callResult)
        /\ \A clause \in Range(callArgument) :
              MatchesPaymentPattern(clause) =>
                  IF Len(clause) <= 100 THEN clause \in Range(callResult)
                  ELSE \E term \in Range(callResult) : IsNormalizedSentence(term)
        /\ \A a, b \in 1..Len(callResult) : a # b => callResult[a] # callResult[b]

\* C20, amended: only clauses that mention payment, invoice, net, due, paid
\* or pay within are looked at. Such a clause that matches a payment pattern is
\* returned verbatim when it has at most 100 characters and otherwise yields
\* exactly one normalized sentence, taken from the first pattern that matches
\* and its first occurrence (the sample clause gives "Payment terms: Net 30
\* days."); every other clause yields nothing, and the result has no duplicates.
PaymentTermsOfRelatedClauses ==
    callPc = "returned" =>
        LET yielding == {clause \in Range(callArgument) :
                            isPaymentRelated(clause) /\ MatchesPaymentPattern(clause)}
            result == Range(callResult)
        IN  /\ \A clause \in yielding : Len(clause) <= 100 => clause \in result
            /\ \A clause \in yielding :
                  Len(clause) > 100 =>
                      Cardinality({term \in result :
                                      IsNormalizedSentence(term) /\ term = paymentTermOf(clause)}) = 1
            /\ \A term \in result :
                  \E clause \in yielding :
                      term = IF Len(clause) <= 100 THEN clause ELSE paymentTermOf(clause)
            /\ SamplePaymentClause \in Range(callArgument) => PaymentTermsNet30 \in result
            /\ TextNetThirty \in Range(callArgument) => PaymentTermsNet30 \in result
            /\ TextNetTwice \in Range(callArgument) => PaymentTermsNet15 \in result
            /\ TextPayWithin \in Range(callArgument) => PaymentDueWithin45 \in result
            /\ TextLateCharge \in Range(callArgument) => LatePaymentFee2Percent \in result
            /\ TextInvoiceDue \in Range(callArgument) => TextInvoiceDue \in result
            /\ TextLateFeeOnly \notin result
            /\ TextBankTransfer \notin result
            /\ LatePaymentFee15Applies \notin result
            /\ \A a, b \in 1..Len(callResult) :
                  a # b => callResult[a] # callResult[b]

\* Two long clauses gave the same normalized sentence, kept once.
WitnessDuplicateTermDropped ==
    /\ callPc = "returned"
    /\ callArgument = <<SamplePaymentClause, TextNetThirty>>
    /\ callResult = <<PaymentTermsNet30>>

\* ---------------------------------------------------------------- C13
SummaryFields == {"documentId"} \cup SummaryTextFields \cup SummaryJsonFields

\* C13: each store holds at most one summary per documentId, and after
\* createContractSummary the stored record is the new one alone: a field the
\* new record lacks is absent, an array or object field is exactly the new
\* one, a non-empty text field is the new one (DatabaseStorage stores an empty
\* text as no value), whatever the record replaced held.
OneSummaryPerDocumentReplaced ==
    /\ \A a, b \in contractSummaries : a.documentId = b.documentId => a = b
    /\ \A a, b \in 1..Len(memContractSummaries) :
          a # b => memContractSummaries[a][1] # memContractSummaries[b][1]
    /\ callPc = "returned" /\ callArgument.op = "createContractSummary" =>
          LET new == callArgument.summary
              stored == storedSummary(callArgument.storage, callArgument.documentId)
          IN  /\ stored # NoSummary
              /\ \A f \in SummaryFields :
                    /\ f \notin DOMAIN new => f \notin DOMAIN stored
                    /\ f \in DOMAIN new /\ f \notin SummaryTextFields =>
                          f \in DOMAIN stored /\ stored[f] = new[f]
                    /\ f \in DOMAIN new /\ f \in SummaryTextFields =>
                          IF new[f] = <<>>
                          THEN callArgument.storage = "DatabaseStorage" => f \notin DOMAIN stored
                          ELSE f \in DOMAIN stored /\ stored[f] = new[f]

\* C13 witness: a summary with documentId only has replaced, in the database,
\* a summary that had fees and a title.
WitnessSummaryReplacedByBare ==
    /\ callPc = "returned"
    /\ callArgument.op = "createContractSummary"
    /\ callArgument.storage = "DatabaseStorage"
    /\ "fees" \in DOMAIN callArgument.before
    /\ "title" \in DOMAIN callArgument.before
    /\ DOMAIN callArgument.summary = {"documentId"}
    /\ Cardinality(contractSummaries) = 2

\* ---------------------------------------------------------------- C14
SummaryArrayFields ==
    {"paymentTerms", "fees", "rateCard", "keyObligations", "terminationClauses"}

\* C14: getContractSummary, for a documentId whose last write was a
\* createContractSummary, returns the five arrays as they were written (same
\* elements, same order; an array that was not written is not returned), in
\* both storage implementations.
SummaryArraysRoundTrip ==
    callPc = "returned" /\ callArgument.op = "getContractSummary" =>
        LET written == lastCreated[<<callArgument.storage, callArgument.documentId>>]
        IN  written # NoSummary =>
               /\ callResult # NoSummary
               /\ callResult.documentId = callArgument.documentId
               /\ \A f \in SummaryArrayFields :
                     IF f \in DOMAIN written
                     THEN /\ f \in DOMAIN callResult
                          /\ Len(callResult[f]) = Len(written[f])
                          /\ \A k \in 1..Len(written[f]) : callResult[f][k] = written[f][k]
                     ELSE f \notin DOMAIN callResult

\* C14 witness: the database returns a summary written with a three-entry
\* paymentTerms array holding one term twice, and an empty fees array.
WitnessArraysReadBack ==
    /\ callPc = "returned"
    /\ callArgument.op = "getContractSummary"
    /\ callArgument.storage = "DatabaseStorage"
    /\ lastCreated[<<"DatabaseStorage", callArgument.documentId>>] # NoSummary
    /\ "paymentTerms" \in DOMAIN callResult
    /\ callResult.paymentTerms = <<DueOnReceipt, Net30Days, DueOnReceipt>>
    /\ callResult.fees = <<>>

\* ---------------------------------------------------------------- C18
\* The indexes of the analysed clauses that are Compliant with risk_score
\* below 5.
ObligationIndexes(analyzed) ==
    {k \in 1..Len(analyzed) :
        analyzed[k].compliance_status = "Compliant" /\ analyzed[k].risk_score < 5}

\* C18: keyObligations holds the clause texts of the first three (or all, if
\* fewer) analysed clauses that are Compliant with risk_score below 5, in
\* document order: entry j is the text of the qualifying clause that has
\* j - 1 qualifying clauses before it.
KeyObligationsFirstThreeCompliant ==
    callPc = "returned" /\ "keyObligations" \in DOMAIN callResult =>
        LET qualifying == ObligationIndexes(callArgument)
            obligations == callResult.keyObligations
        IN  /\ Len(obligations) = Min(3, Cardinality(qualifying))
            /\ Len(obligations) <= 3
            /\ \A j \in 1..Len(obligations) :
                  \E k \in qualifying :
                     /\ Cardinality({q \in qualifying : q < k}) = j - 1
                     /\ obligations[j] = callArgument[k].clause

\* C18 witness: of five analysed clauses the first is Non-Compliant, the
\* third has risk_score 5 and the other three qualify; keyObligations is the
\* texts of the second, fourth and fifth.
WitnessObligationsSkipUnqualified ==
    /\ callPc = "returned"
    /\ "keyObligations" \in DOMAIN callResult
    /\ Len(callArgument) = 5
    /\ ObligationIndexes(callArgument) = {2, 4, 5}
    /\ callArgument[3].compliance_status = "Compliant"
    /\ callResult.keyObligations = <<TextIpOwner, TextLiabilityCap, TextIpOwner>>

\* ---------------------------------------------------------------- C11
\* The extraction requests that have written and responded 200.
ExtractionsDone ==
    {r \in DOMAIN requests : /\ requests[r].handler \in ExtractHandlers
                             /\ requests[r].pc = "done"
                             /\ requests[r].status = 200}

\* The array request r merges into, as r read it and as it was stored right
\* after r's write.
ArrayBefore(r) == arrayOrEmpty(requests[r].summary, extractField(requests[r].handler))

ArrayAfter(r) == arrayOrEmpty(requests[r].written, extractField(requests[r].handler))

KeysOf(handlerName, entries) ==
    {entryKey(handlerName, entries[k]) : k \in 1..Len(entries)}

NoDuplicateKeys(handlerName, entries) ==
    \A a, b \in 1..Len(entries) :
        a # b => entryKey(handlerName, entries[a]) # entryKey(handlerName, entries[b])

\* The extractor of request r produced only keys that were stored already.
ExtractedOnlyStoredKeys(r) ==
    KeysOf(requests[r].handler, requests[r].extracted)
        \subseteq KeysOf(requests[r].handler, ArrayBefore(r))

\* C11 as stated: an extraction that produces only stored keys leaves the
\* stored array as it was.
ReextractionLeavesArrayUnchanged ==
    \A r \in ExtractionsDone : ExtractedOnlyStoredKeys(r) => ArrayAfter(r) = ArrayBefore(r)

\* C11: an extraction that produces only stored keys leaves an array without
\* duplicate keys as it was, and collapses an array with duplicate keys to
\* one entry per key; the array any extraction request writes has no
\* duplicate keys, so that running the extraction again does not change it.
ReextractionKeepsDistinctKeys ==
    \A r \in ExtractionsDone :
        /\ NoDuplicateKeys(requests[r].handler, ArrayAfter(r))
        /\ ExtractedOnlyStoredKeys(r) =>
              /\ NoDuplicateKeys(requests[r].handler, ArrayBefore(r)) =>
                    ArrayAfter(r) = ArrayBefore(r)
              /\ Len(ArrayAfter(r)) =
                    Cardinality(KeysOf(requests[r].handler, ArrayBefore(r)))
              /\ KeysOf(requests[r].handler, ArrayAfter(r)) =
                    KeysOf(requests[r].handler, ArrayBefore(r))

\* C11 witness: extract-fees has run twice in a row on one document; the
\* second run extracted only fees whose names the first run had stored, and
\* left the fees array, of at least two entries, as it was.
WitnessSecondExtractionNoChange ==
    \E a, b \in ExtractionsDone :
        /\ a # b
        /\ requests[a].handler = "extract-fees"
        /\ requests[b].handler = "extract-fees"
        /\ requests[a].param = requests[b].param
        /\ requests[b].summary = requests[a].written
        /\ ExtractedOnlyStoredKeys(b)
        /\ Len(ArrayBefore(b)) >= 2
        /\ ArrayAfter(b) = ArrayBefore(b)

\* ---------------------------------------------------------------- C12
RECURSIVE IsSubsequence(_, _)
IsSubsequence(a, b) ==
    IF a = <<>> THEN TRUE
    ELSE IF b = <<>> THEN FALSE
    ELSE IF Head(a) = Head(b) THEN IsSubsequence(Tail(a), Tail(b))
    ELSE IsSubsequence(a, Tail(b))

\* The number of entries with the key.
KeyCount(handlerName, entries, key) ==
    Cardinality({k \in 1..Len(entries) : entryKey(handlerName, entries[k]) = key})

\* The two arrays request r does not merge into are stored as r read them.
OtherArraysKept(r) ==
    \A f \in {"fees", "rateCard", "paymentTerms"} \ {extractField(requests[r].handler)} :
        arrayOrEmpty(requests[r].written, f) = arrayOrEmpty(requests[r].summary, f)

\* C12 as stated: every entry the request read is still stored after its
\* write, unchanged and in the same relative order, and no entry was added
\* under a key that was present.
ExtractionKeepsEveryEntry ==
    \A r \in ExtractionsDone :
        /\ OtherArraysKept(r)
        /\ IsSubsequence(ArrayBefore(r), ArrayAfter(r))
        /\ \A key \in KeysOf(requests[r].handler, ArrayBefore(r)) :
              KeyCount(requests[r].handler, ArrayAfter(r), key)
                 <= KeyCount(requests[r].handler, ArrayBefore(r), key)

\* C12: the request stores the other two arrays as it read them; the merged
\* array has every key that was present, no key twice, and beyond the keys
\* present only keys of extracted entries; when the array read has no
\* duplicate keys it is a prefix of the merged array, and each entry after
\* it is an extracted entry whose key was not present.
ExtractionKeepsEntriesOfDistinctKeys ==
    \A r \in ExtractionsDone :
        LET h == requests[r].handler
            before == ArrayBefore(r)
            after == ArrayAfter(r)
        IN  /\ OtherArraysKept(r)
            /\ NoDuplicateKeys(h, after)
            /\ KeysOf(h, before) \subseteq KeysOf(h, after)
            /\ KeysOf(h, after) \subseteq KeysOf(h, before) \cup KeysOf(h, requests[r].extracted)
            /\ NoDuplicateKeys(h, before) =>
                  /\ Len(after) >= Len(before)
                  /\ SubSeq(after, 1, Len(before)) = before
                  /\ \A k \in (Len(before) + 1)..Len(after) :
                        /\ entryKey(h, after[k]) \notin KeysOf(h, before)
                        /\ after[k] \in Range(requests[r].extracted)

\* C12 witness: two extraction requests ran one after the other on one
\* document; the second read what the first had written, a non-empty array of
\* distinct keys, and appended an entry to it.
WitnessEntryAppended ==
    \E a, b \in ExtractionsDone :
        /\ a # b
        /\ requests[a].handler = requests[b].handler
        /\ requests[b].summary = requests[a].written
        /\ Len(ArrayAfter(a)) > Len(ArrayBefore(a))
        /\ Len(ArrayBefore(b)) >= 2
        /\ Len(ArrayAfter(b)) = Len(ArrayBefore(b)) + 1

\* ---------------------------------------------------------------- C15
\* C15: once an upload has failed at text extraction (it responded 500), no
\* clause and no contract summary with that upload's document id is stored.
FailedUploadStoresNothing ==
    \A r \in DOMAIN requests :
        requests[r].handler = "upload" /\ requests[r].pc = "done" /\ requests[r].status = 500 =>
            /\ \A c \in clausesTable : c.document_id # requests[r].fileId
            /\ \A row \in contractSummaries : row.documentId # requests[r].fileId

\* ---------------------------------------------------------------- C16
\* C16: ids identify the stored clauses; in every step a clause that stays
\* stored keeps its text, section, page, category, risk_score,
\* compliance_status and document_id, and its completed flag stays or turns
\* from false to true; a clause that enters the store has a fresh id and
\* completed = false.
OnlyCompletedChangesToTrue ==
    /\ [](\A a, b \in clausesTable : a.id = b.id => a = b)
    /\ [][\A c2 \in clausesTable' :
            IF \E c \in clausesTable : c.id = c2.id
            THEN \A c \in clausesTable :
                    c.id = c2.id => /\ c2 = [c EXCEPT !.completed = c2.completed]
                                    /\ c.completed => c2.completed
            ELSE c2.completed = FALSE /\ c2.id >= clauseSerial]_vars

\* C16 witness: a clause the run's upload created (id 3) has been marked
\* complete.
WitnessUploadedClauseCompleted ==
    \E r \in DOMAIN requests :
        /\ requests[r].handler = "mark-complete"
        /\ requests[r].pc = "done"
        /\ requests[r].status = 200
        /\ requests[r].param = 3
        /\ \E c \in clausesTable : c.id = 3 /\ c.completed

\* ---------------------------------------------------------------- C17
\* The reset requests that have responded.
ResetsDone ==
    {r \in DOMAIN requests : requests[r].handler = "reset" /\ requests[r].pc = "done"}

\* C17: a reset during which no upload was in progress left the clause store
\* empty when it responded; no step of a reset changes the compliance rules
\* or the contract summaries.
ResetEmptiesClauseStore ==
    /\ [](\A r \in ResetsDone : ~requests[r].overlapped => requests[r].stored = 0)
    /\ [][(\E r \in DOMAIN requests : ResetGetAllClauses(r) \/ ResetDeleteClause(r))
             => UNCHANGED <<complianceRules, ruleSerial, contractSummaries>>]_vars

\* C17 witness: after an upload had completed, a reset with no upload in
\* progress read two clauses, one of them marked complete, and responded
\* with the store empty, the summaries still stored.
WitnessResetDeletedClauses ==
    \E r \in ResetsDone :
        /\ ~requests[r].overlapped
        /\ requests[r].param = 2
        /\ requests[r].stored = 0
        /\ clausesTable = {}
        /\ contractSummaries # {}
        /\ \E q \in DOMAIN requests :
              /\ q < r
              /\ requests[q].handler = "mark-complete"
              /\ requests[q].status = 200

\* ---------------------------------------------------------------- C19
\* The uploads that have analysed their clauses and not responded yet.
UploadsAnalyzed ==
    {r \in DOMAIN requests : /\ requests[r].handler = "upload"
                             /\ requests[r].pc \in {"createClause", "createContractSummary"}}

\* C19: the analysed clauses of an upload are a result of analysing its
\* clauses against the rules the upload read: without the key, a clause is
\* Non-Compliant exactly when a disallowed rule read by the upload matches
\* it, whatever the stored rules are by then; and the steps of the upload
\* that read the rules and analyse leave the stored rules as they are.
AnalysedAgainstRulesRead ==
    /\ [](\A r \in UploadsAnalyzed :
            /\ requests[r].analyzedClauses \in
                  analyzeDocument(requests[r].extractedClauses, requests[r].rules,
                                  requests[r].fileId, apiKey)
            /\ ~apiKey =>
                  \A k \in 1..Len(requests[r].analyzedClauses) :
                     requests[r].analyzedClauses[k].compliance_status = "Non-Compliant"
                        <=> violationsOf(ruleMatches(requests[r].extractedClauses[k],
                                                     requests[r].rules)) # <<>>)
    /\ [][(\E r \in DOMAIN requests : UploadGetRules(r) \/ UploadAnalyze(r))
             => UNCHANGED <<complianceRules, ruleSerial>>]_vars

\* C19 witness: an upload read rules among which the disallowed liability
\* rule matches its clause; the rule was edited or deleted before the
\* analysis ran, no stored rule is violated by the clause any more, and the
\* clause was analysed as Non-Compliant.
WitnessRuleChangedDuringUpload ==
    \E r \in UploadsAnalyzed :
        /\ requests[r].rules # complianceRules
        /\ \E q \in DOMAIN requests :
              requests[q].handler \in {"rule-update", "rule-delete"} /\ requests[q].pc = "done"
        /\ \E k \in 1..Len(requests[r].analyzedClauses) :
              /\ requests[r].analyzedClauses[k].compliance_status = "Non-Compliant"
              /\ violationsOf(ruleMatches(requests[r].analyzedClauses[k].clause,
                                          complianceRules)) = <<>>

\* ---------------------------------------------------------------- C21
\* The keyword tests of the category, in their order: the label and the
\* substrings one of which the lower-cased clause must contain.
CategoryTests ==
    << <<"Confidentiality", {SubConfiden}>>,
       <<"Termination", {SubTerminat}>>,
       <<"Payment Terms", {SubPayment, SubFee}>>,
       <<"Liability", {SubLiab}>>,
       <<"IP Rights", {SubIntellectual, SubProperty}>>,
       <<"Indemnification", {SubIndemnif}>> >>

\* The test at position k succeeds on the clause under analysis.
TestSucceeds(k) == \E sub \in CategoryTests[k][2] : includes(toLowerCase(clauseText), sub)

\* C21: the category of a heuristic analysis is the label of the first test,
\* in the order Confidentiality, Termination, Payment Terms, Liability, IP
\* Rights, Indemnification, that succeeds on the clause, whatever the draws;
\* when no test succeeds it is one of the six labels.
CategoryOfFirstSucceedingTest ==
    analysisPc = "returned" =>
        /\ \A k \in 1..Len(CategoryTests) :
              (TestSucceeds(k) /\ \A j \in 1..(k - 1) : ~TestSucceeds(j))
                 => analysis.category = CategoryTests[k][1]
        /\ (\A k \in 1..Len(CategoryTests) : ~TestSucceeds(k))
              => analysis.category \in {CategoryTests[k][1] : k \in 1..Len(CategoryTests)}

\* C21 witness: a clause on which the Termination, Liability and IP Rights
\* tests succeed was analysed as Termination.
WitnessEarlierTestWins ==
    /\ analysisPc = "returned"
    /\ TestSucceeds(2) /\ TestSucceeds(4) /\ TestSucceeds(5)
    /\ analysis.category = "Termination"

\* ---------------------------------------------------------------- C22
\* The indexes of the analysed clauses whose category is the given one or
\* whose lower-cased text contains the given substring.
KeyClauseIndexes(analyzed, category, sub) ==
    {k \in 1..Len(analyzed) :
        analyzed[k].category = category \/ includes(toLowerCase(analyzed[k].clause), sub)}

\* The text of the first clause among the given indexes, the fixed sentence
\* when there is none.
FirstTextOrDefault(analyzed, indexes, default) ==
    IF indexes = {} THEN default
    ELSE analyzed[CHOOSE k \in indexes : \A j \in indexes : k <= j].clause

\* C22 as claimed: the summary has exactly one termination clause, the text
\* of the first analysed clause that is of category Termination or contains
\* "terminat", the default sentence when there is none; confidentialityTerms
\* likewise with Confidentiality and "confidential".
KeyClauseIsFirstMatchingText ==
    callPc = "returned" /\ "terminationClauses" \in DOMAIN callResult =>
        /\ callResult.terminationClauses =
              << FirstTextOrDefault(callArgument,
                                    KeyClauseIndexes(callArgument, "Termination", SubTerminat),
                                    DefaultTerminationClause) >>
        /\ callResult.confidentialityTerms =
              FirstTextOrDefault(callArgument,
                                 KeyClauseIndexes(callArgument, "Confidentiality",
                                                  SubConfidential),
                                 DefaultConfidentialityClause)

\* The text of the first clause among the given indexes when it is not
\* empty, the fixed sentence otherwise.
FirstNonEmptyTextOrDefault(analyzed, indexes, default) ==
    IF FirstTextOrDefault(analyzed, indexes, default) = <<>> THEN default
    ELSE FirstTextOrDefault(analyzed, indexes, default)

\* C22: the summary has exactly one termination clause: the text of the
\* first analysed clause that is of category Termination or contains
\* "terminat" when that text is not empty, and the default sentence when
\* there is no such clause or the text of the first one is empty (later
\* matching clauses are not looked at); confidentialityTerms likewise with
\* Confidentiality and "confidential".
KeyClauseIsFirstMatchingNonEmptyText ==
    callPc = "returned" /\ "terminationClauses" \in DOMAIN callResult =>
        /\ callResult.terminationClauses =
              << FirstNonEmptyTextOrDefault(
                    callArgument, KeyClauseIndexes(callArgument, "Termination", SubTerminat),
                    DefaultTerminationClause) >>
        /\ callResult.confidentialityTerms =
              FirstNonEmptyTextOrDefault(
                 callArgument,
                 KeyClauseIndexes(callArgument, "Confidentiality", SubConfidential),
                 DefaultConfidentialityClause)

\* C22 witness: of three analysed clauses the second and the third match
\* the termination test with different texts, the second by its text only;
\* the summary's termination clause is the text of the second.
WitnessFirstTerminationClauseTaken ==
    /\ callPc = "returned"
    /\ "terminationClauses" \in DOMAIN callResult
    /\ Len(callArgument) = 3
    /\ KeyClauseIndexes(callArgument, "Termination", SubTerminat) = {2, 3}
    /\ callArgument[2].category # "Termination"
    /\ callArgument[2].clause # callArgument[3].clause
    /\ callArgument[3].clause # <<>>
    /\ callResult.terminationClauses = <<callArgument[2].clause>>

\* ---------------------------------------------------------------- C23
\* C23: analyzeDocument analyses the clauses one at a time in index order:
\* the records pushed so far are those of the first i clauses, in order, and
\* a step analyses at most the one clause at index i, and only when no delay
\* is pending. A delay follows the clause at 0-based index j exactly when
\* j mod 5 = 4 and j is not the last index.
AnalysedInOrderWithBatchDelay ==
    /\ [](/\ i <= Len(clauses)
          /\ Len(analyzedClauses) = i
          /\ \A k \in 1..i : analyzedClauses[k].clause = clauses[k]
          /\ delayedAfter = {j \in 0..(i - 1) : j % 5 = 4 /\ j # Len(clauses) - 1}
          /\ documentPc = "delay" => (i - 1) \in delayedAfter
          /\ documentPc = "returned" => i = Len(clauses))
    /\ [][/\ i' # i => /\ i' = i + 1
                       /\ documentPc = "loop"
                       /\ analyzedClauses' = Append(analyzedClauses, analyzedClauses'[i'])
                       /\ documentPc' = "delay" <=> (i % 5 = 4 /\ i # Len(clauses) - 1)
          /\ i' = i => analyzedClauses' = analyzedClauses]_vars

\* C23 witness: a document of six clauses was analysed to the end with one
\* delay, after the fifth clause.
WitnessDelayAfterFifthOfSix ==
    /\ documentPc = "returned"
    /\ Len(clauses) = 6
    /\ Len(analyzedClauses) = 6
    /\ delayedAfter = {4}

\* ---------------------------------------------------------------- C24
\* C24 as claimed: once an extract-fees request and an extract-costs request
\* for the same document have both written and responded, the stored summary
\* of the document holds every fee the one wrote and every rate-card item the
\* other wrote.
NeitherExtractionUpdateLost ==
    \A f, c \in ExtractionsDone :
        /\ requests[f].handler = "extract-fees"
        /\ requests[c].handler = "extract-costs"
        /\ requests[f].param = requests[c].param
        => LET stored == getContractSummary(contractSummaries, requests[f].param)
           IN  /\ Range(ArrayAfter(f)) \subseteq Range(arrayOrEmpty(stored, "fees"))
               /\ Range(ArrayAfter(c)) \subseteq Range(arrayOrEmpty(stored, "rateCard"))

\* ---------------------------------------------------------------- C25
\* The uploads with a file that were answered with the given status.
UploadsAnswered(status) ==
    {q \in DOMAIN requests : /\ requests[q].handler = "upload"
                             /\ requests[q].pc = "done"
                             /\ requests[q].status = status}

\* No upload with a file arrived after request r.
LastUpload(r) == \A q \in DOMAIN requests : q > r => requests[q].handler # "upload"

ExtractionArrives(r) ==
    requests[r].handler = "none" /\ requests'[r].handler \in ExtractHandlers

\* Request r is an extraction request that gets its answer from
\* getClausesByDocumentId in this step.
ExtractionReadsClauses(r) ==
    /\ requests[r].handler \in ExtractHandlers
    /\ requests[r].pc = "getClausesByDocumentId"
    /\ requests'[r] # requests[r]

\* Request r is answered not-found in this step, and no stored summary
\* changes.
AnsweredNotFound(r) ==
    /\ requests'[r].pc = "done"
    /\ requests'[r].status = 404
    /\ requests'[r].written = NoSummary
    /\ contractSummaries' = contractSummaries

\* C26: an extraction request that finds no stored summary of its document,
\* or a summary but no stored clause of the document, is answered not-found
\* in that step, and the stored summaries are the same after it.
ExtractionWithoutDataNotFound ==
    [][\A r \in DOMAIN requests :
          /\ (ExtractionArrives(r)
              /\ \A row \in contractSummaries : row.documentId # requests'[r].param)
             => AnsweredNotFound(r)
          /\ (ExtractionReadsClauses(r)
              /\ \A c \in clausesTable : c.document_id # requests[r].param)
             => AnsweredNotFound(r)]_vars

\* C26 witness: an extraction request for a document without summary and one
\* for the uploaded document, read after a reset deleted its clauses, were
\* both answered not-found, and the summary of the upload is stored.
WitnessNotFoundAfterReset ==
    \E a, b, c \in DOMAIN requests :
        /\ requests[a].handler \in ExtractHandlers
        /\ requests[a].status = 404
        /\ requests[a].summary # NoSummary
        /\ requests[b].handler = "reset"
        /\ requests[b].pc = "done"
        /\ requests[b].param > 0
        /\ requests[c].handler = "upload"
        /\ requests[c].status = 200
        /\ getContractSummary(contractSummaries, requests[a].param) = requests[a].summary

\* An extraction request for a document without stored summary was answered
\* not-found.
WitnessNotFoundWithoutSummary ==
    \E a \in DOMAIN requests :
        /\ requests[a].handler \in ExtractHandlers
        /\ requests[a].status = 404
        /\ requests[a].summary = NoSummary
        /\ contractSummaries # {}

\* ---------------------------------------------------------------- C27
\* The ids of the stored clauses.
ClauseIds(table) == {c.id : c \in table}

\* Request r is a mark-complete request with a numeric id that arrives in
\* this step.
MarkArrives(r) ==
    /\ requests[r].handler = "none"
    /\ requests'[r].handler = "mark-complete"
    /\ requests'[r].status # 400

\* Request r is a mark-complete request that takes a step after its lookup.
MarkSteps(r) ==
    /\ requests[r].handler = "mark-complete"
    /\ requests'[r] # requests[r]

\* C27: a mark-complete request whose id has no stored clause at the lookup
\* is answered not-found and changes no clause; a step of a mark-complete
\* request after the lookup changes no clause either when the clause of its
\* id is no longer stored, and no step of it stores a clause under an id
\* that was not stored.
MarkCompleteNeverCreatesClause ==
    [][\A r \in DOMAIN requests :
          /\ (MarkArrives(r) /\ requests'[r].param \notin ClauseIds(clausesTable))
             => /\ requests'[r].pc = "done"
                /\ requests'[r].status = 404
                /\ clausesTable' = clausesTable
          /\ MarkArrives(r) \/ MarkSteps(r)
             => ClauseIds(clausesTable') = ClauseIds(clausesTable)
          /\ (MarkSteps(r) /\ requests[r].param \notin ClauseIds(clausesTable))
             => clausesTable' = clausesTable]_vars

\* C27 witness: a mark-complete request found its clause, the clause was
\* deleted before the request's UPDATE, the UPDATE returned no row, and no
\* clause of that id is stored.
WitnessClauseDeletedBeforeUpdate ==
    \E r \in DOMAIN requests :
        /\ requests[r].handler = "mark-complete"
        /\ requests[r].pc = "done"
        /\ requests[r].status = 200
        /\ requests[r].stored = 0
        /\ requests[r].param \notin ClauseIds(clausesTable)

\* A mark-complete request for an id without stored clause was answered
\* not-found while clauses of other ids are stored.
WitnessMarkNotFound ==
    \E r \in DOMAIN requests :
        /\ requests[r].handler = "mark-complete"
        /\ requests[r].status = 404
        /\ clausesTable # {}
        /\ requests[r].param \notin ClauseIds(clausesTable)

\* ---------------------------------------------------------------- C28
\* The document ids that have a stored summary.
SummaryDocumentIds(summaries) == {row.documentId : row \in summaries}

EmptyKeywordRules == {k \in DOMAIN rules : rules[k].keyword = <<>>}

\* A disallowed rule under analysis has its keyword in the clause.
DisallowedRuleMatches ==
    \E k \in DOMAIN rules :
        /\ ~rules[k].allowed
        /\ includes(toLowerCase(clauseText), toLowerCase(rules[k].keyword))

\* C29: a rule with the empty keyword is among the matches of every clause;
\* with such a rule allowed and no disallowed rule matching, the status is
\* Compliant or Review Needed; with such a rule disallowed, the status is
\* Non-Compliant.
EmptyKeywordMatchesEveryClause ==
    analysisPc = "returned" =>
        /\ \A k \in EmptyKeywordRules : \E m \in DOMAIN matches : matches[m].rule = rules[k]
        /\ ((\E k \in EmptyKeywordRules : rules[k].allowed) /\ ~DisallowedRuleMatches)
              => analysis.compliance_status \in {"Compliant", "Review Needed"}
        /\ (\E k \in EmptyKeywordRules : ~rules[k].allowed)
              => analysis.compliance_status = "Non-Compliant"

\* C29 witness: the clause that holds no keyword of the initial rules,
\* analysed against the allowed rule with the empty keyword alone, got
\* Review Needed.
WitnessPlainClauseReviewNeeded ==
    /\ analysisPc = "returned"
    /\ clauseText = TextPlain
    /\ rules = <<[id |-> 5, keyword |-> <<>>, allowed |-> TRUE]>>
    /\ analysis.compliance_status = "Review Needed"

\* The same clause analysed against the disallowed rule with the empty
\* keyword alone got Non-Compliant.
WitnessPlainClauseNonCompliant ==
    /\ analysisPc = "returned"
    /\ clauseText = TextPlain
    /\ rules = <<[id |-> 6, keyword |-> <<>>, allowed |-> FALSE]>>
    /\ analysis.compliance_status = "Non-Compliant"

----------------------------------------------------------------------------
(* MemStorage: createClause, deleteClause and updateClause called on their *)
(* own.                                                                     *)

\* Most clauses created in one run.
MaxMemClauses == 3

\* The clauses passed to createClause.
MemInsertClauses ==
    { [clause |-> TextPlain, completed |-> FALSE], [clause |-> TextNda, completed |-> FALSE] }

\* The partial clauses passed to updateClause: one without id, one with id.
MemClausePartials == { [completed |-> TRUE], [id |-> 1, completed |-> TRUE] }

\* map.delete(key)
mapDelete(map, key) == SelectSeq(map, LAMBDA entry : entry[1] # key)

\* map.get(key), for a key the map has
mapGet(map, key) == (CHOOSE entry \in {map[k] : k \in 1..Len(map)} : entry[1] = key)[2]

\* Variant of createdClauseId that takes the least id no resident clause has.
createdClauseIdLeastFree(map, currentId) ==
    CHOOSE n \in 1..currentId :
        /\ ~mapHas(map, n)
        /\ \A m \in 1..(n - 1) : mapHas(map, m)

\* const id = this.clauseCurrentId++
createdClauseId(map, currentId) == currentId

\* newClause = { ...clause, id }
memNewClause(clause, id) ==
    [f \in DOMAIN clause \cup {"id"} |-> IF f = "id" THEN id ELSE clause[f]]

\* updatedClause = { ...existingClause, ...clause }
memUpdatedClause(existingClause, clause) ==
    [f \in DOMAIN existingClause \cup DOMAIN clause |->
        IF f \in DOMAIN clause THEN clause[f] ELSE existingClause[f]]

InitMemClauses ==
    /\ apiKey = FALSE
    /\ IdleAnalyzer
    /\ IdleSegmenter
    /\ IdleDocument
    /\ IdleServer
    /\ callArgument = [op |-> "none"]
    /\ callResult = <<>>
    /\ callPc = "ready"
    /\ memContractSummaries = <<>>
    /\ lastCreated = <<>>
    /\ clausesList = <<>>
    /\ clauseCurrentId = 1
    /\ createdIds = <<>>

MemClauseFrame ==
    UNCHANGED <<apiKey, analyzerVars, segmentVars, documentVars, serverVars,
                memContractSummaries, lastCreated>>

\* MemStorage.createClause(clause)
MemCreateClause(clause) ==
    /\ clauseCurrentId <= MaxMemClauses
    /\ LET id == createdClauseId(clausesList, clauseCurrentId)
           newClause == memNewClause(clause, id)
       IN  /\ clauseCurrentId' = clauseCurrentId + 1
           /\ clausesList' = mapSet(clausesList, id, newClause)
           /\ createdIds' = Append(createdIds, id)
           /\ callResult' = newClause
    /\ callArgument' = [op |-> "createClause", clause |-> clause]
    /\ callPc' = "returned"
    /\ MemClauseFrame

\* MemStorage.deleteClause(id)
MemDeleteClause(id) ==
    /\ clausesList' = mapDelete(clausesList, id)
    /\ callArgument' = [op |-> "deleteClause", id |-> id]
    /\ callResult' = mapHas(clausesList, id)
    /\ callPc' = "returned"
    /\ UNCHANGED <<clauseCurrentId, createdIds>>
    /\ MemClauseFrame

\* MemStorage.updateClause(id, clause)
MemUpdateClause(id, clause) ==
    /\ IF mapHas(clausesList, id)
       THEN LET updatedClause == memUpdatedClause(mapGet(clausesList, id), clause)
            IN  /\ clausesList' = mapSet(clausesList, id, updatedClause)
                /\ callResult' = updatedClause
       ELSE /\ callResult' = <<>>
            /\ UNCHANGED clausesList
    /\ callArgument' = [op |-> "updateClause", id |-> id, clause |-> clause]
    /\ callPc' = "returned"
    /\ UNCHANGED <<clauseCurrentId, createdIds>>
    /\ MemClauseFrame

NextMemClauses ==
    \/ \E clause \in MemInsertClauses : MemCreateClause(clause)
    \/ \E id \in 1..MaxMemClauses : MemDeleteClause(id)
    \/ \E id \in 1..MaxMemClauses, clause \in MemClausePartials : MemUpdateClause(id, clause)

SpecMemClauses == InitMemClauses /\ [][NextMemClauses]_vars

\* ---------------------------------------------------------------- C30
\* The ids of the resident clauses are pairwise distinct.
ResidentIdsDistinct(map) ==
    \A j, k \in 1..Len(map) : map[j][2].id = map[k][2].id => j = k

\* Each created clause got an id greater than the id of every clause
\* created before it.
CreatedIdsIncrease == \A a, b \in DOMAIN createdIds : a < b => createdIds[a] < createdIds[b]

\* The call is an updateClause whose clause carries an id other than the id
\* it updates.
UpdatesId(argument) ==
    /\ argument.op = "updateClause"
    /\ "id" \in DOMAIN argument.clause
    /\ argument.clause.id # argument.id

====
